---- MODULE Spec2Model ----
(***************************************************************************)
(* Model of the pixel-battle browser client: the WebSocketManager          *)
(* (static/js/modules/WebSocketManager.js), the parts of the shared store  *)
(* (StateManager.js) it writes, the handlers the application coordinator   *)
(* (app.js) registers on it, and the browser's WebSocket objects and       *)
(* timers it runs against.  One action is one run-to-completion task of    *)
(* the single-threaded event loop.                                         *)
(***************************************************************************)
EXTENDS Integers, Sequences, FiniteSets, TLC

(* ---------------- bounds of the model ---------------- *)
MaxSockets == 2
MaxQueue == 2
MaxNotifications == 1
MaxTime == 1
MaxWrites == 2
MaxBatch == 2
MaxInitLen == 2
MaxGestures == 5

(* ---------------- program constants ---------------- *)
maxReconnectAttempts == 10
reconnectInterval == 1000
maxReconnectInterval == 30000
NormalClosure == 1000
AbnormalClosure == 1006
\* CONFIG of the page: the grid and the side of a cell in CSS pixels at scale 1
CANVAS_WIDTH == 1600
CANVAS_HEIGHT == 400
PIXEL_SIZE == 5

Null == 0
Undefined == -1

VARIABLES
    socks,             \* the WebSocket objects the manager created: readyState, whether
                       \* onclose is still attached, whether the connection was established
    ws,                \* this.ws: Null or the index of a socket
    isConnecting,      \* this.isConnecting
    reconnectAttempts, \* this.reconnectAttempts
    heartbeatTimer,    \* this.heartbeatTimer refers to a live interval
    connectionTimer,   \* this.connectionTimer: "null", "armed" or "fired"
    strayHeartbeats,   \* live heartbeat intervals the field no longer refers to
    strayConnTimers,   \* armed connection timeouts the field no longer refers to
    reconnectTimers,   \* pending setTimeout callbacks of scheduleReconnect
    messageQueue,      \* this.messageQueue
    connection,        \* appState.state.connection
    pixels,            \* appState.state.canvas.pixels: key string -> color
    notifications,     \* the entries the manager appends to appState.state.ui.notifications
    appConnected,      \* PixelBattleApp.appState.isConnected
    now,               \* Date.now(), counted from 1
    url,               \* this.url: "valid", or "invalid" when new WebSocket(url) throws
    selectedPixel,     \* appState.state.canvas.selectedPixel: <<>> for null, or <<x, y>>
    selectedColor,     \* appState.state.user.selectedColor ("" for a missing color)
    user,              \* appState.state.user: isCooldown, cooldownTime
    cooldownIntervals, \* live setInterval timers of startCooldown
    COOLDOWN_TIME,     \* this.config.COOLDOWN_TIME of the application
    state,             \* a part of appState.state as a tree: the values at the keys "a"
                       \* and "b", with the object at "a" holding a property "b"
    subscribers,       \* appState.subscribers: per path the callbacks in insertion order
    handles,           \* the <<path, callback>> pairs whose unsubscribe function exists
    view,              \* appState.state.canvas: scale in 1/160, offsetX and offsetY in
                       \* 1/32 of a CSS pixel
    viewport,          \* width and height of the area the canvas is shown in
    input,             \* inputState and timers of the input controller: the drag in
                       \* progress, the double-click timer, the events handled so far
    engine,            \* the RenderEngine: whether it is constructed, needsRedraw,
                       \* isRendering, whether the canvas size differs from its layout
                       \* box, and the canvas.* writes since the last frame callback
    obs                \* the task that ran last and what it returned / transmitted

vars == <<socks, ws, isConnecting, reconnectAttempts, heartbeatTimer, connectionTimer,
          strayHeartbeats, strayConnTimers, reconnectTimers, messageQueue, connection,
          pixels, notifications, appConnected, now, url, selectedPixel, selectedColor,
          user, cooldownIntervals, COOLDOWN_TIME, state, subscribers, handles, engine,
          view, viewport, input, obs>>

SockIds == 1..MaxSockets
FreeSock == [rs |-> "NONE", onclose |-> FALSE, estab |-> FALSE]
Live(m) == {s \in SockIds : m.socks[s].rs \in {"CONNECTING", "OPEN", "CLOSING"}}

Min(a, b) == IF a <= b THEN a ELSE b

(* ---------------- values and conversions ---------------- *)
Digit(d) ==
    CASE d = 0 -> "0" [] d = 1 -> "1" [] d = 2 -> "2" [] d = 3 -> "3" [] d = 4 -> "4"
      [] d = 5 -> "5" [] d = 6 -> "6" [] d = 7 -> "7" [] d = 8 -> "8" [] OTHER -> "9"

RECURSIVE Decimal(_)
Decimal(n) == IF n < 10 THEN Digit(n) ELSE Decimal(n \div 10) \o Digit(n % 10)

\* String(v) of a template literal or of JSON.stringify for a number or undefined
ToStr(v) == IF v = Undefined THEN "undefined" ELSE Decimal(v)

Colors == {"#000000", "#FF0000"}

OutMsg(t, x, y, c, ts) == [type |-> t, x |-> x, y |-> y, color |-> c, timestamp |-> ts]
PixelMsg(x, y, c) == OutMsg("pixel_update", x, y, c, Undefined)
PingMsg(ts) == OutMsg("ping", Undefined, Undefined, "undefined", ts)
\* an object JSON.stringify cannot serialize (a cycle, a BigInt)
CyclicMsg == OutMsg("cyclic", Undefined, Undefined, "undefined", Undefined)
NoMsg == OutMsg("none", Undefined, Undefined, "undefined", Undefined)

Serializable(msg) == msg.type # "cyclic"

\* JSON.stringify(message) for the messages the client builds: a ping with its
\* timestamp, a pixel update with its coordinates and color
Stringify(msg) ==
    IF msg.type = "ping"
    THEN "{\"type\":\"ping\",\"timestamp\":" \o ToStr(msg.timestamp) \o "}"
    ELSE "{\"type\":\"" \o msg.type \o "\",\"x\":" \o ToStr(msg.x) \o ",\"y\":" \o ToStr(msg.y)
         \o ",\"color\":\"" \o msg.color \o "\"}"

(* ---------------- the state as one record ---------------- *)
\* values of the store: a property that is missing (what get returns as undefined),
\* null, a number, or an object whose own properties are numbers
Absent == -1
NullVal == -2
Nums == {0, 1}
Segs == {"a", "b"}
Paths == {<<"a">>, <<"a", "b">>, <<"b">>}
Leaf(n) == [obj |-> FALSE, n |-> n, kids |-> [k \in {"b"} |-> Absent]]
ObjOf(b) == [obj |-> TRUE, n |-> 0, kids |-> [k \in {"b"} |-> b]]
NoArg == [path |-> <<>>, value |-> Leaf(Absent), updates |-> <<>>, cb |-> ""]

NoOut == [tx |-> <<>>, ret |-> FALSE, threw |-> FALSE, created |-> FALSE,
          scheduled |-> FALSE, base |-> 0, delay |-> 0, seen |-> {}, paints |-> 0,
          calls |-> <<>>, arg |-> NoArg, point |-> <<>>, painted |-> <<>>]

St ==
    [socks |-> socks, ws |-> ws, isConnecting |-> isConnecting,
     reconnectAttempts |-> reconnectAttempts, heartbeatTimer |-> heartbeatTimer,
     connectionTimer |-> connectionTimer, strayHeartbeats |-> strayHeartbeats,
     strayConnTimers |-> strayConnTimers, reconnectTimers |-> reconnectTimers,
     messageQueue |-> messageQueue, connection |-> connection, pixels |-> pixels,
     notifications |-> notifications, appConnected |-> appConnected, now |-> now,
     url |-> url, selectedPixel |-> selectedPixel, selectedColor |-> selectedColor,
     user |-> user, cooldownIntervals |-> cooldownIntervals,
     COOLDOWN_TIME |-> COOLDOWN_TIME, state |-> state, subscribers |-> subscribers,
     handles |-> handles, engine |-> engine, view |-> view, viewport |-> viewport,
     input |-> input, out |-> NoOut]

Obs(op, sock, code, msg, flag, frame, m) ==
    [op |-> op, sock |-> sock, code |-> code, msg |-> msg, flag |-> flag,
     frame |-> frame, tx |-> m.out.tx, ret |-> m.out.ret, threw |-> m.out.threw,
     created |-> m.out.created, scheduled |-> m.out.scheduled, base |-> m.out.base,
     delay |-> m.out.delay, seen |-> m.out.seen, paints |-> m.out.paints,
     calls |-> m.out.calls, arg |-> m.out.arg, point |-> m.out.point,
     painted |-> m.out.painted]

Apply(m, o) ==
    /\ socks' = m.socks
    /\ ws' = m.ws
    /\ isConnecting' = m.isConnecting
    /\ reconnectAttempts' = m.reconnectAttempts
    /\ heartbeatTimer' = m.heartbeatTimer
    /\ connectionTimer' = m.connectionTimer
    /\ strayHeartbeats' = m.strayHeartbeats
    /\ strayConnTimers' = m.strayConnTimers
    /\ reconnectTimers' = m.reconnectTimers
    /\ messageQueue' = m.messageQueue
    /\ connection' = m.connection
    /\ pixels' = m.pixels
    /\ notifications' = m.notifications
    /\ appConnected' = m.appConnected
    /\ now' = m.now
    /\ url' = m.url
    /\ selectedPixel' = m.selectedPixel
    /\ selectedColor' = m.selectedColor
    /\ user' = m.user
    /\ cooldownIntervals' = m.cooldownIntervals
    /\ COOLDOWN_TIME' = m.COOLDOWN_TIME
    /\ engine' = m.engine
    /\ state' = m.state
    /\ subscribers' = m.subscribers
    /\ handles' = m.handles
    /\ view' = m.view
    /\ viewport' = m.viewport
    /\ input' = m.input
    /\ obs' = o

\* variant: the heartbeat interval is left running
ClearTimersKeepHeartbeat(m) == [m EXCEPT !.connectionTimer = "null"]

(* ---------------- WebSocketManager: helpers ---------------- *)
\* clearTimers(): clearInterval / clearTimeout of the handles the two fields hold
ClearTimers(m) == [m EXCEPT !.heartbeatTimer = FALSE, !.connectionTimer = "null"]

\* startHeartbeat(): a new interval; a handle the field still held is overwritten, not cleared
StartHeartbeat(m) ==
    [m EXCEPT !.strayHeartbeats = @ + (IF m.heartbeatTimer THEN 1 ELSE 0),
              !.heartbeatTimer = TRUE]

TransportOpen(m) == m.ws # Null /\ m.socks[m.ws].rs = "OPEN"

\* send(message, queueIfDisconnected); ws.send of an OPEN socket does not throw
Send(m, message, queueIfDisconnected) ==
    IF ~Serializable(message)
    THEN [m EXCEPT !.out.threw = TRUE]
    ELSE IF TransportOpen(m)
    THEN [m EXCEPT !.out.tx = Append(@, Stringify(message)), !.out.ret = TRUE]
    ELSE [m EXCEPT !.messageQueue = IF queueIfDisconnected THEN Append(@, message) ELSE @,
                   !.out.ret = FALSE]

RECURSIVE SendEach(_, _)
SendEach(m, messages) ==
    IF messages = <<>> THEN m
    ELSE SendEach(Send(m, Head(messages), FALSE), Tail(messages))

\* flushMessageQueue()
FlushMessageQueue(m) ==
    IF Len(m.messageQueue) = 0 THEN m
    ELSE SendEach([m EXCEPT !.messageQueue = <<>>], m.messageQueue)

\* variant: the doubling without the cap
BaseDelayUncapped(n) == reconnectInterval * 2 ^ (n - 1)

\* the jitter-free delay of reconnect attempt n
BaseDelay(n) == Min(reconnectInterval * 2 ^ (n - 1), maxReconnectInterval)

\* Math.random() in tenths; the jitter is baseDelay * 0.1 * Math.random()
Randoms == {0, 9}
Jitter(baseDelay, r) == (baseDelay * r) \div 100

\* variant: the attempt is counted and announced, but no timer is set
ScheduleReconnectNoTimer(m, r) ==
    IF m.reconnectAttempts >= maxReconnectAttempts
    THEN [m EXCEPT !.notifications = Append(@, "persistent_error")]
    ELSE LET n == m.reconnectAttempts + 1
             baseDelay == BaseDelay(n)
         IN [m EXCEPT !.reconnectAttempts = n,
                      !.connection.reconnectAttempts = n,
                      !.out.scheduled = TRUE,
                      !.out.base = baseDelay,
                      !.out.delay = baseDelay + Jitter(baseDelay, r)]

\* scheduleReconnect()
ScheduleReconnect(m, r) ==
    IF m.reconnectAttempts >= maxReconnectAttempts
    THEN [m EXCEPT !.notifications = Append(@, "persistent_error")]
    ELSE LET n == m.reconnectAttempts + 1
             baseDelay == BaseDelay(n)
         IN [m EXCEPT !.reconnectAttempts = n,
                      !.connection.reconnectAttempts = n,
                      !.reconnectTimers = @ + 1,
                      !.out.scheduled = TRUE,
                      !.out.base = baseDelay,
                      !.out.delay = baseDelay + Jitter(baseDelay, r)]

\* new WebSocket(url): the socket takes the lowest free slot; a closed socket that
\* this.ws referred to is dropped with the reference
NewSocket(m) ==
    LET kept == [s \in SockIds |->
                    IF s = m.ws /\ m.socks[s].rs = "CLOSED" THEN FreeSock ELSE m.socks[s]]
        s == CHOOSE i \in SockIds :
                /\ kept[i].rs = "NONE"
                /\ \A j \in SockIds : j < i => kept[j].rs # "NONE"
    IN [m EXCEPT !.socks = [kept EXCEPT ![s] = [rs |-> "CONNECTING", onclose |-> TRUE,
                                                   estab |-> FALSE]],
                 !.ws = s]

\* variant: the store is marked disconnected before the guard is looked at
ConnectResetsStore(m, r) ==
    IF m.isConnecting \/ TransportOpen(m)
    THEN [m EXCEPT !.connection.isConnected = FALSE]
    ELSE LET m1 == [m EXCEPT !.isConnecting = TRUE, !.connection.isConnected = FALSE]
         IN IF m.url = "valid"
            THEN [NewSocket(m1) EXCEPT
                     !.strayConnTimers = @ + (IF m.connectionTimer = "armed" THEN 1 ELSE 0),
                     !.connectionTimer = "armed",
                     !.out.created = TRUE]
            ELSE ScheduleReconnect([m1 EXCEPT !.isConnecting = FALSE], r)

\* connect()
Connect(m, r) ==
    IF m.isConnecting \/ TransportOpen(m)
    THEN m
    ELSE LET m1 == [m EXCEPT !.isConnecting = TRUE, !.connection.isConnected = FALSE]
         IN IF m.url = "valid"
            THEN [NewSocket(m1) EXCEPT
                     !.strayConnTimers = @ + (IF m.connectionTimer = "armed" THEN 1 ELSE 0),
                     !.connectionTimer = "armed",
                     !.out.created = TRUE]
            ELSE ScheduleReconnect([m1 EXCEPT !.isConnecting = FALSE], r)

\* ws.close() as the page calls it: a socket that is connecting or open starts closing
CloseSocket(sock) ==
    IF sock.rs \in {"CONNECTING", "OPEN"}
    THEN [sock EXCEPT !.rs = "CLOSING", !.estab = (sock.rs = "OPEN")]
    ELSE sock

\* variant: disconnect() resets the store's counter only
DisconnectKeepAttempts(m) ==
    LET m1 == ClearTimers(m)
        m2 == IF m1.ws # Null
              THEN [m1 EXCEPT
                      !.socks[m1.ws] =
                          IF m1.socks[m1.ws].rs = "CLOSED" THEN FreeSock
                          ELSE [CloseSocket(m1.socks[m1.ws]) EXCEPT !.onclose = FALSE],
                      !.ws = Null]
              ELSE m1
    IN [m2 EXCEPT !.connection.isConnected = FALSE,
                  !.connection.reconnectAttempts = 0,
                  !.isConnecting = FALSE]

\* disconnect()
Disconnect(m) ==
    LET m1 == ClearTimers(m)
        m2 == IF m1.ws # Null
              THEN [m1 EXCEPT
                      !.socks[m1.ws] =
                          IF m1.socks[m1.ws].rs = "CLOSED" THEN FreeSock
                          ELSE [CloseSocket(m1.socks[m1.ws]) EXCEPT !.onclose = FALSE],
                      !.ws = Null]
              ELSE m1
    IN [m2 EXCEPT !.connection.isConnected = FALSE,
                  !.connection.reconnectAttempts = 0,
                  !.reconnectAttempts = 0,
                  !.isConnecting = FALSE]

\* the 'connected' handler the application registers (setupWebSocketEvents)
OnConnected(m) == [m EXCEPT !.appConnected = TRUE, !.connection.isConnected = TRUE]

\* the 'disconnected' handler the application registers
OnDisconnected(m) == [m EXCEPT !.appConnected = FALSE, !.connection.isConnected = FALSE]

\* handleOpen(event)
HandleOpen(m) ==
    LET m1 == ClearTimers([m EXCEPT !.isConnecting = FALSE, !.reconnectAttempts = 0])
        m2 == [m1 EXCEPT !.connection.isConnected = TRUE,
                         !.connection.reconnectAttempts = 0,
                         !.connection.lastPing = m.now]
    IN OnConnected(StartHeartbeat(FlushMessageQueue(m2)))

\* variant: a reconnect is scheduled whatever the close code
HandleCloseAnyCode(m, code, r) ==
    LET m1 == ClearTimers([m EXCEPT !.isConnecting = FALSE])
        m2 == [m1 EXCEPT !.connection.isConnected = FALSE]
    IN OnDisconnected(ScheduleReconnect(m2, r))

\* handleClose(event)
HandleClose(m, code, r) ==
    LET m1 == ClearTimers([m EXCEPT !.isConnecting = FALSE])
        m2 == [m1 EXCEPT !.connection.isConnected = FALSE]
        m3 == IF code # NormalClosure THEN ScheduleReconnect(m2, r) ELSE m2
    IN OnDisconnected(m3)

(* ---------------- inbound frames ---------------- *)
\* event.data: json says what JSON.parse makes of it ("bad": it throws, "null": the
\* value null, "object": an object with the fields below; a field the object lacks
\* reads as undefined)
Frame(json, type, x, y, color, hasPixels, pixelList, n, timestamp) ==
    [json |-> json, type |-> type, x |-> x, y |-> y, color |-> color,
     hasPixels |-> hasPixels, pixels |-> pixelList, n |-> n, timestamp |-> timestamp,
     hasUpdates |-> FALSE, updates |-> <<>>]

NoFrame == Frame("none", "", Undefined, Undefined, "undefined", FALSE, <<>>, Undefined, Undefined)
Untagged(json, type) ==
    Frame(json, type, Undefined, Undefined, "undefined", FALSE, <<>>, Undefined, Undefined)
InitFrame(hasPixels, pixelList, n) ==
    Frame("object", "init", Undefined, Undefined, "undefined", hasPixels, pixelList, n, Undefined)
PixelUpdateFrame(x, y, color) ==
    Frame("object", "pixel_update", x, y, color, FALSE, <<>>, Undefined, Undefined)
UserCountFrame(n) ==
    Frame("object", "user_count", Undefined, Undefined, "undefined", FALSE, <<>>, n, Undefined)
PongFrame(timestamp) ==
    Frame("object", "pong", Undefined, Undefined, "undefined", FALSE, <<>>, Undefined, timestamp)
\* the batched form of a pixel update: {type: 'pixel_update', updates: [...]}
BatchFrame(updateList) ==
    [PixelUpdateFrame(Undefined, Undefined, "undefined")
        EXCEPT !.hasUpdates = TRUE, !.updates = updateList]
ErrorFrame ==
    Frame("object", "error", Undefined, Undefined, "undefined", FALSE, <<>>, Undefined, Undefined)

KnownTags == {"init", "pixel_update", "user_count", "pong", "error"}

\* the template literal `${x},${y}`
Key(x, y) == ToStr(x) \o "," \o ToStr(y)

\* Map.prototype.set
MapSet(map, key, value) ==
    [k \in DOMAIN map \cup {key} |-> IF k = key THEN value ELSE map[k]]

RECURSIVE SetEach(_, _)
SetEach(map, pixelList) ==
    IF pixelList = <<>> THEN map
    ELSE SetEach(MapSet(map, Key(Head(pixelList).x, Head(pixelList).y), Head(pixelList).color),
                 Tail(pixelList))

EmptyMap == [k \in {} |-> "undefined"]

\* variant: the listed pixels are set in the map the store already holds
\* the render engine before new RenderEngine(...) has run: no subscriber, no loop
NoEngine == [mounted |-> FALSE, needsRedraw |-> FALSE, isRendering |-> FALSE,
             layoutStale |-> FALSE, writes |-> 0]

\* variant: the engine's subscriber counts the write and leaves needsRedraw alone
MarkCanvasCounted(m) ==
    IF m.engine.mounted
    THEN [m EXCEPT !.engine.writes = Min(@ + 1, MaxWrites)]
    ELSE m

\* a store write under canvas.*: the engine's subscriber of 'canvas' is notified as a
\* subscriber of the parent path; writes counts them since the last frame callback
MarkCanvas(m) ==
    IF m.engine.mounted
    THEN [m EXCEPT !.engine.needsRedraw = TRUE, !.engine.writes = Min(@ + 1, MaxWrites)]
    ELSE m

HandleInitMessageMerge(m, message) ==
    MarkCanvas([m EXCEPT !.pixels = SetEach(m.pixels, message.pixels),
                         !.connection.onlineUsers = message.n])

\* handleInitMessage(message), and handleInitialization(message) of the application:
\* a fresh Map filled from message.pixels replaces canvas.pixels
HandleInitMessage(m, message) ==
    MarkCanvas([m EXCEPT !.pixels = SetEach(EmptyMap, message.pixels),
                         !.connection.onlineUsers = message.n])

\* handlePixelUpdate(message), of the manager and of the application alike
HandlePixelUpdate(m, message) ==
    MarkCanvas([m EXCEPT !.pixels = MapSet(m.pixels, Key(message.x, message.y),
                                           message.color)])

\* handlePong(message)
HandlePong(m, message) == [m EXCEPT !.connection.lastPing = m.now]

\* handleServerError(message)
HandleServerError(m, message) == [m EXCEPT !.notifications = Append(@, "server_error")]

\* handleMessage(event): the switch, then emit('message:' + type) to the handlers the
\* application registered; what throws inside the try is caught and logged
HandleMessage(m, frame) ==
    IF frame.json # "object" THEN m
    ELSE CASE frame.type = "init" ->
                  IF ~frame.hasPixels THEN m
                  ELSE HandleInitMessage(HandleInitMessage(m, frame), frame)
           [] frame.type = "pixel_update" ->
                  HandlePixelUpdate(HandlePixelUpdate(m, frame), frame)
           [] frame.type = "user_count" -> [m EXCEPT !.connection.onlineUsers = frame.n]
           [] frame.type = "pong" -> HandlePong(m, frame)
           [] frame.type = "error" -> HandleServerError(m, frame)
           [] OTHER -> m

(* ---------------- application coordinator: placement and cooldown ---------------- *)
\* canvas.selectedPixel = null
NullPixel == <<>>

\* what a store subscriber reads of the cooldown state when it is called
Glimpse(m) == [isCooldown |-> m.user.isCooldown, cooldownTime |-> m.user.cooldownTime]

\* the subscribers of the path just written run, with the store as it is now
Notify(m) == [m EXCEPT !.out.seen = @ \cup {Glimpse(m)}]

\* variant: rows above the grid are accepted
IsValidCanvasPositionNoTop(pos) ==
    /\ pos[1] >= 0 /\ pos[1] < CANVAS_WIDTH
    /\ pos[2] < CANVAS_HEIGHT

\* isValidCanvasPosition(pos)
IsValidCanvasPosition(pos) ==
    /\ pos[1] >= 0 /\ pos[1] < CANVAS_WIDTH
    /\ pos[2] >= 0 /\ pos[2] < CANVAS_HEIGHT

\* handlePixelSelection(canvasPos) of the input controller
HandlePixelSelection(m, cell) ==
    IF IsValidCanvasPosition(cell)
    THEN MarkCanvas(Notify([m EXCEPT !.selectedPixel = cell]))
    ELSE m

\* the click handler of a palette entry: appState.set('user.selectedColor', color)
SelectColor(m, color) == Notify([m EXCEPT !.selectedColor = color])

\* emit('sendPixelUpdate', data): the handler setupDefaultHandlers registered
EmitSendPixelUpdate(m, data) == Send(m, PixelMsg(data.x, data.y, data.color), TRUE)

\* endCooldown()
EndCooldown(m) == Notify([m EXCEPT !.user = [isCooldown |-> FALSE, cooldownTime |-> 0]])

\* startCooldown(): the batch write, then the interval
StartCooldown(m) ==
    LET m1 == Notify([m EXCEPT !.user = [isCooldown |-> TRUE,
                                         cooldownTime |-> m.COOLDOWN_TIME]])
    IN [m1 EXCEPT !.cooldownIntervals = @ + 1]

\* the interval callback of startCooldown
CooldownTick(m) ==
    LET currentTime == m.user.cooldownTime - 1
        m1 == Notify([m EXCEPT !.user.cooldownTime = currentTime])
    IN IF currentTime <= 0
       THEN EndCooldown([m1 EXCEPT !.cooldownIntervals = @ - 1])
       ELSE m1

\* handlePixelConfirmation()
\* variant: the confirmation without the local write of the cell
HandlePixelConfirmationNoEcho(m) ==
    IF m.selectedPixel = NullPixel THEN m
    ELSE IF m.selectedColor = "" THEN m
    ELSE IF m.user.isCooldown THEN m
    ELSE IF ~m.appConnected THEN m
    ELSE LET data == [x |-> m.selectedPixel[1], y |-> m.selectedPixel[2],
                      color |-> m.selectedColor]
             m1 == EmitSendPixelUpdate(m, data)
             m3 == StartCooldown(m1)
         IN MarkCanvas(Notify([m3 EXCEPT !.selectedPixel = NullPixel]))

HandlePixelConfirmation(m) ==
    IF m.selectedPixel = NullPixel THEN m
    ELSE IF m.selectedColor = "" THEN m
    ELSE IF m.user.isCooldown THEN m
    ELSE IF ~m.appConnected THEN m
    ELSE LET data == [x |-> m.selectedPixel[1], y |-> m.selectedPixel[2],
                      color |-> m.selectedColor]
             m1 == EmitSendPixelUpdate(m, data)
             m2 == Notify(HandlePixelUpdate(m1, data))
             m3 == StartCooldown(m2)
         IN MarkCanvas(Notify([m3 EXCEPT !.selectedPixel = NullPixel]))

(* ---------------- StateManager ---------------- *)
\* _getNestedValue(obj, path): path.split('.').reduce((current, key) => current?.[key], obj)
GetNestedValue(tree, path) ==
    IF Len(path) = 1 THEN tree[path[1]]
    ELSE IF tree[path[1]].obj THEN Leaf(tree[path[1]].kids[path[2]])
    ELSE Leaf(Absent)

\* _setNestedValue(obj, path, value) of a strict-mode module: a missing container is
\* created, a property of null or of a number cannot be assigned (TypeError)
SetNestedThrows(tree, path) ==
    /\ Len(path) = 2
    /\ ~tree[path[1]].obj
    /\ tree[path[1]].n # Absent

SetNestedValue(tree, path, value) ==
    IF Len(path) = 1 THEN [tree EXCEPT ![path[1]] = value]
    ELSE IF tree[path[1]].obj THEN [tree EXCEPT ![path[1]].kids[path[2]] = value.n]
    ELSE [tree EXCEPT ![path[1]] = [ObjOf(Absent) EXCEPT !.kids[path[2]] = value.n]]

\* get(path)
StoreGet(m, path) == GetNestedValue(m.state, path)

\* one subscriber callback runs: what it is given and what the store holds meanwhile;
\* a callback that throws is caught and logged
Invoke(m, cb, at, value, oldValue) ==
    [m EXCEPT !.out.calls = Append(@, [cb |-> cb, at |-> at, value |-> value,
                                       old |-> oldValue, view |-> m.state])]

RECURSIVE InvokeEach(_, _, _, _, _)
InvokeEach(m, cbs, at, value, oldValue) ==
    IF cbs = <<>> THEN m
    ELSE InvokeEach(Invoke(m, Head(cbs), at, value, oldValue), Tail(cbs), at, value,
                    oldValue)

\* _notifySubscribers(path, value, oldValue): the subscribers of the path, then those
\* of each parent path with the parent's current value and null
NotifySubscribers(m, path, value, oldValue) ==
    LET m1 == InvokeEach(m, m.subscribers[path], path, value, oldValue)
    IN IF Len(path) = 2 /\ <<path[1]>> \in Paths
       THEN InvokeEach(m1, m1.subscribers[<<path[1]>>], <<path[1]>>,
                       StoreGet(m1, <<path[1]>>), Leaf(NullVal))
       ELSE m1

\* set(path, value); no middleware is registered off localhost
StoreSet(m, path, value) ==
    LET oldValue == StoreGet(m, path)
    IN IF SetNestedThrows(m.state, path) THEN [m EXCEPT !.out.threw = TRUE]
       ELSE NotifySubscribers([m EXCEPT !.state = SetNestedValue(@, path, value)],
                              path, value, oldValue)

\* the first loop of batchUpdate: the writes, in the order of Object.entries(updates)
RECURSIVE ApplyWrites(_, _, _)
ApplyWrites(m, updates, changes) ==
    IF updates = <<>> THEN [m |-> m, changes |-> changes]
    ELSE LET u == Head(updates)
         IN IF SetNestedThrows(m.state, u.path)
            THEN [m |-> [m EXCEPT !.out.threw = TRUE], changes |-> <<>>]
            ELSE ApplyWrites([m EXCEPT !.state = SetNestedValue(@, u.path, u.value)],
                             Tail(updates),
                             Append(changes, [path |-> u.path, value |-> u.value,
                                              oldValue |-> StoreGet(m, u.path)]))

RECURSIVE NotifyChanges(_, _)
NotifyChanges(m, changes) ==
    IF changes = <<>> THEN m
    ELSE NotifyChanges(NotifySubscribers(m, Head(changes).path, Head(changes).value,
                                         Head(changes).oldValue),
                       Tail(changes))

\* variant: each write of the batch is notified before the next one is applied
RECURSIVE BatchUpdateEager(_, _)
BatchUpdateEager(m, updates) ==
    IF updates = <<>> \/ m.out.threw THEN m
    ELSE BatchUpdateEager(StoreSet(m, Head(updates).path, Head(updates).value),
                          Tail(updates))

\* batchUpdate(updates)
BatchUpdate(m, updates) ==
    LET w == ApplyWrites(m, updates, <<>>)
    IN IF w.m.out.threw THEN w.m ELSE NotifyChanges(w.m, w.changes)

Has(seq, x) == \E i \in 1..Len(seq) : seq[i] = x
Without(seq, x) == SelectSeq(seq, LAMBDA y : y # x)

\* variant: the subscribers of a path kept as a list
SubscribeAppend(m, path, callback) ==
    [m EXCEPT !.subscribers[path] = Append(@, callback),
              !.handles = @ \cup {<<path, callback>>}]

\* subscribe(path, callback): Set.add, and the unsubscribe closure it returns
Subscribe(m, path, callback) ==
    [m EXCEPT !.subscribers[path] = IF Has(@, callback) THEN @ ELSE Append(@, callback),
              !.handles = @ \cup {<<path, callback>>}]

\* the closure returned by subscribe: Set.delete
Unsubscribe(m, path, callback) ==
    [m EXCEPT !.subscribers[path] = Without(@, callback)]

(* ---------------- RenderEngine ---------------- *)
\* constructor: the fields, setupEventListeners(), startRenderLoop(); a fresh canvas
\* element has not yet the size of its layout box
NewEngine == [mounted |-> TRUE, needsRedraw |-> TRUE, isRendering |-> FALSE,
              layoutStale |-> TRUE, writes |-> 0]

\* updateCanvasSize()
UpdateCanvasSize(m) ==
    IF m.engine.layoutStale
    THEN [m EXCEPT !.engine.layoutStale = FALSE, !.engine.needsRedraw = TRUE]
    ELSE m

\* the paths _notifySubscribers(path, ...) looks subscribers up at: the path itself,
\* then each parent path
NotifiedPaths(path) == {SubSeq(path, 1, i) : i \in 1..Len(path)}

\* a store write at the path, as the engine sees it: its callback is subscribed at
\* 'canvas'
WritePath(m, path) == IF <<"canvas">> \in NotifiedPaths(path) THEN MarkCanvas(m) ELSE m

\* updatePerformanceMetrics(timestamp): once a second has passed, performance.fps is
\* written
UpdatePerformanceMetrics(m, due) ==
    IF due THEN WritePath(m, <<"performance", "fps">>) ELSE m

\* updateRenderMetrics(renderTime, pixelsRendered): one batchUpdate of three paths
UpdateRenderMetrics(m) ==
    WritePath(WritePath(WritePath(m, <<"performance", "renderTime">>),
                        <<"performance", "pixelsRendered">>),
              <<"performance", "cullRatio">>)

\* what a paint draws: the canvas state it reads from the store when it starts
Picture(m) == <<m.pixels, m.selectedPixel, m.view>>

\* render(): one paint of the canvas, from the canvas state read at its start; the
\* performance.* writes come before needsRedraw is cleared
Render(m) ==
    LET m1 == [m EXCEPT !.engine.isRendering = TRUE, !.out.painted = Picture(m)]
        m2 == UpdateCanvasSize(m1)
        m3 == UpdateRenderMetrics([m2 EXCEPT !.out.paints = @ + 1])
    IN [m3 EXCEPT !.engine.needsRedraw = FALSE, !.engine.isRendering = FALSE]

\* variant: the frame callback renders whether or not the engine is dirty
RenderFrameAlways(m) == [Render(m) EXCEPT !.engine.writes = 0]

\* renderFrame(timestamp), the requestAnimationFrame callback
RenderFrame(m) ==
    LET m1 == IF m.engine.needsRedraw /\ ~m.engine.isRendering THEN Render(m) ELSE m
    IN [m1 EXCEPT !.engine.writes = 0]

\* forceRedraw(), and the resize listener
ForceRedraw(m) == [m EXCEPT !.engine.needsRedraw = TRUE]
OnResize(m) == [m EXCEPT !.engine.needsRedraw = TRUE, !.engine.layoutStale = TRUE]

(* ---------------- InputController: zoom, pan and selection ---------------- *)
\* a length of n CSS pixels, in the model's unit of 1/32 pixel
Px(n) == 32 * n

\* the scale n/d, in the model's unit of 1/160
ScaleOf(n, d) == (160 * n) \div d

Max(a, b) == IF a >= b THEN a ELSE b

RECURSIVE GCD(_, _)
GCD(a, b) == IF b = 0 THEN a ELSE GCD(b, a % b)

\* CONFIG.MIN_SCALE and CONFIG.MAX_SCALE
MIN_SCALE == ScaleOf(1, 2)
MAX_SCALE == ScaleOf(10, 1)

\* parseInt(--header-height) || 60
headerHeight == Px(60)

\* a length of the unscaled canvas, multiplied by the scale
Scaled(len, scale) == (len * scale) \div ScaleOf(1, 1)

logicalCanvasWidth == Px(CANVAS_WIDTH * PIXEL_SIZE)
logicalCanvasHeight == Px(CANVAS_HEIGHT * PIXEL_SIZE)

\* PIXEL_SIZE * scale: the side of a cell on screen
PixelSide(scale) == Scaled(Px(PIXEL_SIZE), scale)

\* the canvas state written by initializeCanvasState()
InitialView == [scale |-> ScaleOf(1, 1), offsetX |-> 0, offsetY |-> headerHeight]

\* finalWidth and finalHeight: the container of the canvas in a desktop and in a
\* phone window
Desktop == [w |-> Px(1000), h |-> Px(700)]
Phone == [w |-> Px(400), h |-> Px(600)]
Viewports == {Desktop, Phone}

NoDrag == [on |-> FALSE, x |-> 0, y |-> 0, offsetX |-> 0, offsetY |-> 0]
NoInput == [drag |-> NoDrag, doubleClick |-> FALSE, isZooming |-> FALSE, gestures |-> 0]

\* variant: the lower edge of the larger-canvas branch is taken one pixel short
ClampXShort(offset, scale, vp) ==
    LET lw == Scaled(logicalCanvasWidth, scale)
    IN IF lw > vp.w
       THEN Min(0, Max(offset + Px(1), vp.w - lw))
       ELSE LET maxOffset == Max(0, vp.w - lw)
            IN Max(-maxOffset, Min(offset, maxOffset))

\* the limits on offsetX, as written in zoomAtPoint, updateDragPosition and moveCanvas
ClampX(offset, scale, vp) ==
    LET lw == Scaled(logicalCanvasWidth, scale)
    IN IF lw > vp.w
       THEN Min(0, Max(offset, vp.w - lw))
       ELSE LET maxOffset == Max(0, vp.w - lw)
            IN Max(-maxOffset, Min(offset, maxOffset))

\* the limits on offsetY with the upper end of the larger branch one pixel below the header
ClampYPastHeader(offset, scale, vp) ==
    LET lh == Scaled(logicalCanvasHeight, scale)
    IN IF lh > vp.h
       THEN Min(headerHeight + Px(1), Max(offset, vp.h - lh))
       ELSE LET maxOffset == Max(0, vp.h - lh)
            IN Max(headerHeight - maxOffset, Min(offset, headerHeight + maxOffset))

\* the limits on offsetY
ClampY(offset, scale, vp) ==
    LET lh == Scaled(logicalCanvasHeight, scale)
    IN IF lh > vp.h
       THEN Min(headerHeight, Max(offset, vp.h - lh))
       ELSE LET maxOffset == Max(0, vp.h - lh)
            IN Max(headerHeight - maxOffset, Min(offset, headerHeight + maxOffset))

\* the subscriber of 'canvas' is called once per changed path of a batchUpdate
RECURSIVE MarkTimes(_, _)
MarkTimes(m, k) == IF k = 0 THEN m ELSE MarkTimes(MarkCanvas(m), k - 1)

\* appState.batchUpdate of the canvas paths whose value differs
BatchView(m, v) ==
    MarkTimes([m EXCEPT !.view = v],
              Cardinality({f \in DOMAIN v : v[f] # m.view[f]}))

\* Math.max(0.1, Math.min(20, scale * zoomFactor)) for the factor fn / fd
NewScale(scale, fn, fd) == Max(ScaleOf(1, 10), Min(ScaleOf(20, 1), (scale * fn) \div fd))

\* screenPoint - ((screenPoint - offset) / scale) * newScale
Anchored(point, offset, scale, newScale) ==
    LET g == GCD(newScale, scale)
    IN point - ((point - offset) \div (scale \div g)) * (newScale \div g)

\* the products and quotients of a zoom at this point by fn / fd are multiples of the
\* model's units
Representable(v, point, fn, fd) ==
    LET newScale == NewScale(v.scale, fn, fd)
        rd == v.scale \div GCD(newScale, v.scale)
    IN /\ \/ (v.scale * fn) % fd = 0
          \/ newScale \in {ScaleOf(1, 10), ScaleOf(20, 1)}
       /\ (point[1] - v.offsetX) % rd = 0
       /\ (point[2] - v.offsetY) % rd = 0

\* variant: the scale changes and the offsets are only limited, not recomputed
ZoomAtPointInPlace(m, screenPoint, fn, fd) ==
    LET v == m.view
        newScale == NewScale(v.scale, fn, fd)
    IN IF newScale # v.scale
       THEN BatchView(m, [scale |-> newScale,
                          offsetX |-> ClampX(v.offsetX, newScale, m.viewport),
                          offsetY |-> ClampY(v.offsetY, newScale, m.viewport)])
       ELSE m

\* zoomAtPoint(screenPoint, zoomFactor)
ZoomAtPoint(m, screenPoint, fn, fd) ==
    LET v == m.view
        newScale == NewScale(v.scale, fn, fd)
        newOffsetX == Anchored(screenPoint[1], v.offsetX, v.scale, newScale)
        newOffsetY == Anchored(screenPoint[2], v.offsetY, v.scale, newScale)
    IN IF newScale # v.scale
       THEN BatchView(m, [scale |-> newScale,
                          offsetX |-> ClampX(newOffsetX, newScale, m.viewport),
                          offsetY |-> ClampY(newOffsetY, newScale, m.viewport)])
       ELSE m

\* the centre of the canvas element, which fills its container
CenterPoint(m) == <<m.viewport.w \div 2, m.viewport.h \div 2>>

\* zoomAtCenter(factor)
ZoomAtCenter(m, fn, fd) == ZoomAtPoint(m, CenterPoint(m), fn, fd)

\* centerCanvas()
CenterCanvas(m) ==
    LET scale == m.view.scale
        lw == Scaled(logicalCanvasWidth, scale)
        lh == Scaled(logicalCanvasHeight, scale)
        maxX == Max(0, m.viewport.w - lw)
        maxY == Max(0, m.viewport.h - lh)
        newOffsetX == IF lw > m.viewport.w THEN 0
                      ELSE Max(-maxX, Min((m.viewport.w - lw) \div 2, maxX))
        newOffsetY == IF lh > m.viewport.h THEN headerHeight
                      ELSE Max(headerHeight - maxY,
                               Min((m.viewport.h - lh) \div 2, headerHeight + maxY))
    IN BatchView(m, [m.view EXCEPT !.offsetX = newOffsetX, !.offsetY = newOffsetY])

\* resetZoom()
ResetZoom(m) == CenterCanvas(MarkCanvas([m EXCEPT !.view.scale = ScaleOf(1, 1)]))

\* moveCanvas(deltaX, deltaY)
MoveCanvas(m, deltaX, deltaY) ==
    LET v == m.view
    IN BatchView(m, [v EXCEPT !.offsetX = ClampX(v.offsetX + deltaX, v.scale, m.viewport),
                              !.offsetY = ClampY(v.offsetY + deltaY, v.scale, m.viewport)])

\* screenToCanvas(screenX, screenY), with the canvas element at the window's origin:
\* the cell, or null
ScreenToCanvas(v, screenPoint) ==
    LET pos == <<(screenPoint[1] - v.offsetX) \div PixelSide(v.scale),
                 (screenPoint[2] - v.offsetY) \div PixelSide(v.scale)>>
    IN IF IsValidCanvasPosition(pos) THEN pos ELSE NullPixel

\* the rectangle renderPixels() fills for a cell: left, top and side
CellRect(v, cell) ==
    [left |-> v.offsetX + cell[1] * PixelSide(v.scale),
     top |-> v.offsetY + cell[2] * PixelSide(v.scale),
     side |-> PixelSide(v.scale)]

\* handleDoubleClick(event)
HandleDoubleClick(m) ==
    IF m.input.doubleClick
    THEN [CenterCanvas(m) EXCEPT !.input.doubleClick = FALSE]
    ELSE [m EXCEPT !.input.doubleClick = TRUE]

\* startDragging(event)
StartDragging(m, point) ==
    [m EXCEPT !.input.drag = [on |-> TRUE, x |-> point[1], y |-> point[2],
                              offsetX |-> m.view.offsetX, offsetY |-> m.view.offsetY]]

\* handleMouseDown(event): button 0 is the left button, settings.dragButton the right
HandleMouseDown(m, point, button) ==
    LET canvasPos == ScreenToCanvas(m.view, point)
    IN IF button = 0
       THEN IF canvasPos # NullPixel
            THEN HandleDoubleClick(HandlePixelSelection(m, canvasPos))
            ELSE m
       ELSE StartDragging(m, point)

\* updateDragPosition(event), dragSensitivity 1
UpdateDragPosition(m, point) ==
    LET d == m.input.drag
        scale == m.view.scale
    IN IF ~d.on THEN m
       ELSE BatchView(m, [m.view EXCEPT
                !.offsetX = ClampX(d.offsetX + (point[1] - d.x), scale, m.viewport),
                !.offsetY = ClampY(d.offsetY + (point[2] - d.y), scale, m.viewport)])

\* stopDragging()
StopDragging(m) == [m EXCEPT !.input.drag = NoDrag]

\* handleTouchStart(event) with one touch, or with two
HandleTouchStart(m, point, touches) ==
    LET canvasPos == ScreenToCanvas(m.view, point)
    IN IF touches = 1
       THEN IF canvasPos # NullPixel THEN HandlePixelSelection(m, canvasPos) ELSE m
       ELSE IF canvasPos # NullPixel THEN [m EXCEPT !.input.isZooming = TRUE] ELSE m

\* handleTouchZoom(touches): the fingers are deltaDistance pixels further apart than at
\* the event before, touchZoomSensitivity 0.005
HandleTouchZoom(m, center, deltaDistance) ==
    IF ~m.input.isZooming THEN m
    ELSE IF ScreenToCanvas(m.view, center) # NullPixel
         THEN ZoomAtPoint(m, center, 200 + deltaDistance, 200)
         ELSE m

\* handleTouchEnd(event) with no touch left: stopAllGestures()
HandleTouchEnd(m) == [m EXCEPT !.input.isZooming = FALSE, !.input.drag = NoDrag]

\* handleTouchEnd(event) with one touch left
HandleTouchLift(m) == [m EXCEPT !.input.isZooming = FALSE]

\* handleTouchDrag(touch): with a recorded drag start the offsets follow the finger
\* within the same limits as a mouse drag; without one the drag starts here
HandleTouchDrag(m, point) ==
    IF m.input.drag.on THEN UpdateDragPosition(m, point) ELSE StartDragging(m, point)

\* handleTouchMove(event) with one touch
HandleTouchMove(m, point) ==
    IF ~m.input.isZooming /\ ScreenToCanvas(m.view, point) # NullPixel
    THEN HandleTouchDrag(m, point)
    ELSE m

\* handleWheel(event): delta is -Math.sign(event.deltaY), zoomSensitivity 0.1
HandleWheel(m, point, delta) == ZoomAtPoint(m, point, 10 + delta, 10)

\* handleWindowResize()
HandleWindowResize(m) ==
    IF m.view.scale = ScaleOf(1, 1) THEN CenterCanvas(m) ELSE m

(* ---------------- Number: IEEE-754 double arithmetic ---------------- *)
\* a natural number is held as Limbs digits of 15 bits, lowest first; a double is a
\* sign, a significand of 53 bits (or 0) and a binary exponent
Limbs == 8
Radix == 2 ^ 15

BigZero == <<0, 0, 0, 0, 0, 0, 0, 0>>

\* a natural below 2^31
Big(n) == <<n % Radix, (n \div Radix) % Radix, n \div (Radix * Radix), 0, 0, 0, 0, 0>>

\* the value of a natural below 2^31
Small(a) == a[1] + (Radix * a[2]) + (Radix * Radix * a[3])

\* the carry into digit i of a + b: a lower pair of digits overflows and every pair
\* between is full
CarryIn(a, b, i) ==
    IF \E j \in 1..(i - 1) : /\ a[j] + b[j] >= Radix
                             /\ \A k \in (j + 1)..(i - 1) : a[k] + b[k] = Radix - 1
    THEN 1 ELSE 0

AddDigit(a, b, i) == (a[i] + b[i] + CarryIn(a, b, i)) % Radix

\* a + b (the carry out of the top digit is dropped)
BigAdd(a, b) ==
    <<AddDigit(a, b, 1), AddDigit(a, b, 2), AddDigit(a, b, 3), AddDigit(a, b, 4),
      AddDigit(a, b, 5), AddDigit(a, b, 6), AddDigit(a, b, 7), AddDigit(a, b, 8)>>

\* the borrow from digit i of a - b: a lower digit of a is below b's and every pair
\* between is equal
BorrowIn(a, b, i) ==
    IF \E j \in 1..(i - 1) : /\ a[j] < b[j]
                             /\ \A k \in (j + 1)..(i - 1) : a[k] = b[k]
    THEN 1 ELSE 0

SubDigit(a, b, i) == (a[i] - b[i] - BorrowIn(a, b, i)) % Radix

\* a - b for a >= b
BigSub(a, b) ==
    <<SubDigit(a, b, 1), SubDigit(a, b, 2), SubDigit(a, b, 3), SubDigit(a, b, 4),
      SubDigit(a, b, 5), SubDigit(a, b, 6), SubDigit(a, b, 7), SubDigit(a, b, 8)>>

BigLess(a, b) ==
    \E i \in 1..Limbs : a[i] < b[i] /\ \A j \in (i + 1)..Limbs : a[j] = b[j]

Digit15(a, i) == IF i >= 1 /\ i <= Limbs THEN a[i] ELSE 0

\* digit i of a * 2^(15q + r) and of a \div 2^(15q + r)
LeftDigit(a, i, q, r) ==
    ((Digit15(a, i - q) * (2 ^ r)) % Radix) + (Digit15(a, i - q - 1) \div (2 ^ (15 - r)))

RightDigit(a, i, q, r) ==
    (Digit15(a, i + q) \div (2 ^ r)) + ((Digit15(a, i + q + 1) % (2 ^ r)) * (2 ^ (15 - r)))

LeftFrom(a, q, r) ==
    <<LeftDigit(a, 1, q, r), LeftDigit(a, 2, q, r), LeftDigit(a, 3, q, r),
      LeftDigit(a, 4, q, r), LeftDigit(a, 5, q, r), LeftDigit(a, 6, q, r),
      LeftDigit(a, 7, q, r), LeftDigit(a, 8, q, r)>>

RightFrom(a, q, r) ==
    <<RightDigit(a, 1, q, r), RightDigit(a, 2, q, r), RightDigit(a, 3, q, r),
      RightDigit(a, 4, q, r), RightDigit(a, 5, q, r), RightDigit(a, 6, q, r),
      RightDigit(a, 7, q, r), RightDigit(a, 8, q, r)>>

\* a * 2^k (the bits above the top digit are dropped) and a \div 2^k
ShiftLeft(a, k) == LeftFrom(a, k \div 15, k % 15)

ShiftRight(a, k) == RightFrom(a, k \div 15, k % 15)

\* the number of bits of a digit
BitsOf(n) == IF n = 0 THEN 0 ELSE CHOOSE k \in 1..15 : 2 ^ (k - 1) <= n /\ n < 2 ^ k

\* the number of bits of a, whose highest digit that is not 0 is digit top
BitsUpTo(a, top) == (15 * (top - 1)) + BitsOf(a[top])

BitLen(a) ==
    IF a = BigZero THEN 0
    ELSE BitsUpTo(a, CHOOSE i \in 1..Limbs : a[i] # 0 /\ \A j \in (i + 1)..Limbs : a[j] = 0)

\* a * d for a digit d: the low halves of the digit products, plus their high halves
\* one digit up
LowHalves(a, d) ==
    <<(a[1] * d) % Radix, (a[2] * d) % Radix, (a[3] * d) % Radix, (a[4] * d) % Radix,
      (a[5] * d) % Radix, (a[6] * d) % Radix, (a[7] * d) % Radix, (a[8] * d) % Radix>>

HighHalves(a, d) ==
    <<0, (a[1] * d) \div Radix, (a[2] * d) \div Radix, (a[3] * d) \div Radix,
      (a[4] * d) \div Radix, (a[5] * d) \div Radix, (a[6] * d) \div Radix,
      (a[7] * d) \div Radix>>

TimesDigit(a, d) == BigAdd(LowHalves(a, d), HighHalves(a, d))

\* a * b[j] * 2^(15 (j - 1))
MulFrom(a, b, j) ==
    IF b[j] = 0 THEN BigZero ELSE ShiftLeft(TimesDigit(a, b[j]), 15 * (j - 1))

BigMul(a, b) ==
    BigAdd(BigAdd(BigAdd(MulFrom(a, b, 1), MulFrom(a, b, 2)),
                  BigAdd(MulFrom(a, b, 3), MulFrom(a, b, 4))),
           BigAdd(BigAdd(MulFrom(a, b, 5), MulFrom(a, b, 6)),
                  BigAdd(MulFrom(a, b, 7), MulFrom(a, b, 8))))

\* the next digit of the quotient r2 \div d, which is from lo to hi: the number of
\* multiples of d that r2 reaches
DivDigit(r2, d, lo, hi) ==
    lo + Cardinality({c \in (lo + 1)..hi : ~BigLess(r2, TimesDigit(d, c))})

\* the quotient of the leading bits of r2 and of d is at most 2 above and 1 below the
\* digit
DivGuess(r2, d, guess) == DivDigit(r2, d, Max(0, guess - 2), Min(Radix - 1, guess + 1))

\* the digit c below the digits of a
Under(a, c) == <<c, a[1], a[2], a[3], a[4], a[5], a[6], a[7]>>

\* one step of the long division by d, a digit at a time: the remainder r2 after a
\* digit is brought down; top is the leading 15 bits of d, which are followed by sh
\* more
DivTake(q, r2, d, c) == [q |-> Under(q, c), r |-> BigSub(r2, TimesDigit(d, c))]

DivStep(q, r2, d, sh, top) ==
    DivTake(q, r2, d, DivGuess(r2, d, Small(ShiftRight(r2, sh)) \div top))

DivBit(n, d, sh, top, i, s) == DivStep(s.q, Under(s.r, n[i]), d, sh, top)

\* the long division from digit i of n down; the remainder stays below d
RECURSIVE DivFrom(_, _, _, _, _, _)
DivFrom(n, d, sh, top, i, s) ==
    IF i > 0 /\ BigLess(s.r, d)
    THEN DivFrom(n, d, sh, top, i - 1, DivBit(n, d, sh, top, i, s))
    ELSE s

\* quotient and remainder of n / d over the last k digits of n: the digits above them
\* are below d
DivLast(n, d, k, sh) ==
    IF k <= 0 THEN [q |-> BigZero, r |-> n]
    ELSE DivFrom(n, d, sh, Small(ShiftRight(d, sh)), k,
                 [q |-> BigZero, r |-> ShiftRight(n, 15 * k)])

BigDivMod(n, d) ==
    DivLast(n, d, (BitLen(n) - BitLen(d) + 15) \div 15, Max(0, BitLen(d) - 15))

FZero == [neg |-> FALSE, m |-> BigZero, e |-> 0]

\* a significand q of 53 or 54 bits, brought to 53
Normal(neg, q, e) ==
    IF BitLen(q) = 54
    THEN [neg |-> neg, m |-> ShiftRight(q, 1), e |-> e + 1]
    ELSE [neg |-> neg, m |-> q, e |-> e]

\* q with the bits rem cut below it: up when they are above half, or are half and q is odd
RoundUp(neg, q, e, rem, half) ==
    Normal(neg,
           IF BigLess(half, rem) \/ (rem = half /\ q[1] % 2 = 1) THEN BigAdd(q, Big(1)) ELSE q,
           e)

RoundCut(neg, n, e, sh, q) ==
    RoundUp(neg, q, e + sh, BigSub(n, ShiftLeft(q, sh)), ShiftLeft(Big(1), sh - 1))

RoundBits(neg, n, e, len) ==
    IF len = 0 THEN FZero
    ELSE IF len <= 53 THEN [neg |-> neg, m |-> ShiftLeft(n, 53 - len), e |-> e - (53 - len)]
    ELSE RoundCut(neg, n, e, len - 53, ShiftRight(n, len - 53))

\* the double nearest to (-1)^neg * n * 2^e, ties to the even significand
Round(neg, n, e) == RoundBits(neg, n, e, BitLen(n))

\* the double of an integer
Num(n) == IF n < 0 THEN Round(TRUE, Big(-n), 0) ELSE Round(FALSE, Big(n), 0)

FNeg(x) == IF x = FZero THEN x ELSE [x EXCEPT !.neg = ~@]

\* x * y
FMul(x, y) ==
    IF x = FZero \/ y = FZero THEN FZero
    ELSE Round(x.neg # y.neg, BigMul(x.m, y.m), x.e + y.e)

\* the sum of (-1)^xneg * a * 2^e and (-1)^yneg * b * 2^e
Aligned(xneg, a, yneg, b, e) ==
    IF xneg = yneg THEN Round(xneg, BigAdd(a, b), e)
    ELSE IF BigLess(a, b) THEN Round(yneg, BigSub(b, a), e)
    ELSE Round(xneg, BigSub(a, b), e)

\* x + y
FAdd(x, y) ==
    IF x = FZero THEN y
    ELSE IF y = FZero THEN x
    ELSE IF x.e - y.e > 64 THEN x
    ELSE IF y.e - x.e > 64 THEN y
    ELSE Aligned(x.neg, ShiftLeft(x.m, x.e - Min(x.e, y.e)),
                 y.neg, ShiftLeft(y.m, y.e - Min(x.e, y.e)), Min(x.e, y.e))

\* x - y
FSub(x, y) == FAdd(x, FNeg(y))

\* the quotient d.q of 60 bits and more, with a last bit that tells whether a
\* remainder is left
Quotient(neg, d, e) ==
    IF d.r = BigZero THEN Round(neg, ShiftLeft(d.q, 1), e)
    ELSE Round(neg, BigAdd(ShiftLeft(d.q, 1), Big(1)), e)

\* x / y, y not 0
FDiv(x, y) ==
    IF x = FZero \/ y = FZero THEN FZero
    ELSE Quotient(x.neg # y.neg, BigDivMod(ShiftLeft(x.m, 60), y.m), x.e - y.e - 61)

Negative(x) == x.neg /\ x # FZero

\* x < y
FLess(x, y) == Negative(FSub(x, y))

FMax(x, y) == IF FLess(x, y) THEN y ELSE x
FMin(x, y) == IF FLess(y, x) THEN y ELSE x

\* the integer part q of |x|, towards minus infinity
FloorOf(x, q) ==
    IF x.neg THEN (IF ShiftLeft(q, -x.e) = x.m THEN -Small(q) ELSE -Small(q) - 1)
    ELSE Small(q)

\* Math.floor(x), for |x| < 2^31
Floor(x) ==
    IF x = FZero THEN 0
    ELSE IF -x.e >= 53 THEN (IF x.neg THEN -1 ELSE 0)
    ELSE FloorOf(x, ShiftRight(x.m, -x.e))

(* ---------------- InputController and RenderEngine on doubles ---------------- *)
\* the literal 0.1
Tenth == FDiv(Num(1), Num(10))

\* the canvas state written by initializeCanvasState(), and the container of the
\* canvas in a desktop window, as doubles
InitialViewF == [scale |-> Num(1), offsetX |-> Num(0), offsetY |-> Num(60)]
DesktopF == [w |-> Num(1000), h |-> Num(700)]

\* the limits on an offset, as written in zoomAtPoint: scaledSize is the canvas at the
\* new scale and finalSize the container, both along one axis; top is 0 along x and
\* the height of the header along y
ClampF(offset, scaledSize, finalSize, top) ==
    IF FLess(finalSize, scaledSize)
    THEN FMin(top, FMax(offset, FSub(finalSize, scaledSize)))
    ELSE FMax(FSub(top, FMax(Num(0), FSub(finalSize, scaledSize))),
              FMin(offset, FAdd(top, FMax(Num(0), FSub(finalSize, scaledSize)))))

ClampXF(offset, scale, vp) ==
    ClampF(offset, FMul(Num(CANVAS_WIDTH * PIXEL_SIZE), scale), vp.w, Num(0))

ClampYF(offset, scale, vp) ==
    ClampF(offset, FMul(Num(CANVAS_HEIGHT * PIXEL_SIZE), scale), vp.h, Num(60))

\* newOffset = screenPoint - mouseCanvas * newScale, with
\* mouseCanvas = (screenPoint - offset) / scale
AnchoredF(point, offset, scale, newScale) ==
    FSub(Num(point), FMul(FDiv(FSub(Num(point), offset), scale), newScale))

ZoomToF(m, screenPoint, newScale) ==
    IF newScale # m.view.scale
    THEN BatchView(m,
             [scale |-> newScale,
              offsetX |-> ClampXF(AnchoredF(screenPoint[1], m.view.offsetX, m.view.scale,
                                            newScale), newScale, m.viewport),
              offsetY |-> ClampYF(AnchoredF(screenPoint[2], m.view.offsetY, m.view.scale,
                                            newScale), newScale, m.viewport)])
    ELSE m

\* zoomAtPoint(screenPoint, zoomFactor), operation by operation
ZoomAtPointF(m, screenPoint, zoomFactor) ==
    ZoomToF(m, screenPoint, FMax(Tenth, FMin(Num(20), FMul(m.view.scale, zoomFactor))))

\* handleWheel(event): zoomFactor = 1 + zoomSensitivity * delta
HandleWheelF(m, point, delta) ==
    ZoomAtPointF(m, point, FAdd(Num(1), FMul(Tenth, Num(delta))))

\* Math.floor((screen - rect.left - offset) / (PIXEL_SIZE * scale)), with the canvas
\* element at the window's origin
CellIndexF(screen, offset, scale) ==
    Floor(FDiv(FSub(FSub(Num(screen), Num(0)), offset), FMul(Num(PIXEL_SIZE), scale)))

ValidOrNull(pos) == IF IsValidCanvasPosition(pos) THEN pos ELSE NullPixel

\* screenToCanvas(screenX, screenY)
ScreenToCanvasF(v, screenPoint) ==
    ValidOrNull(<<CellIndexF(screenPoint[1], v.offsetX, v.scale),
                  CellIndexF(screenPoint[2], v.offsetY, v.scale)>>)

\* the rectangle renderPixels() passes to fillRect for a cell
CellRectF(v, cell) ==
    [left |-> FAdd(v.offsetX, FMul(Num(cell[1]), FMul(Num(PIXEL_SIZE), v.scale))),
     top |-> FAdd(v.offsetY, FMul(Num(cell[2]), FMul(Num(PIXEL_SIZE), v.scale))),
     side |-> FMul(Num(PIXEL_SIZE), v.scale)]

SelectOrKeep(m, canvasPos) ==
    IF canvasPos # NullPixel THEN HandlePixelSelection(m, canvasPos) ELSE m

\* handleTouchStart(event) with one touch
HandleTouchStartF(m, point) == SelectOrKeep(m, ScreenToCanvasF(m.view, point))

(* ---------------- initial state ---------------- *)
InitObs == Obs("init", Null, 0, NoMsg, FALSE, NoFrame, [out |-> NoOut])

\* the state after construction, for the URLs, the cooldown durations, the canvas
\* states and the window sizes given
BootView(urls, cooldowns, views, viewports) ==
    /\ socks = [s \in SockIds |-> FreeSock]
    /\ ws = Null
    /\ isConnecting = FALSE
    /\ reconnectAttempts = 0
    /\ heartbeatTimer = FALSE
    /\ connectionTimer = "null"
    /\ strayHeartbeats = 0
    /\ strayConnTimers = 0
    /\ reconnectTimers = 0
    /\ messageQueue = <<>>
    /\ connection = [isConnected |-> FALSE, reconnectAttempts |-> 0,
                     lastPing |-> Null, onlineUsers |-> 0]
    /\ pixels = EmptyMap
    /\ notifications = <<>>
    /\ appConnected = FALSE
    /\ now = 1
    /\ url \in urls
    /\ selectedPixel = NullPixel
    /\ selectedColor = "#000000"
    /\ user = [isCooldown |-> FALSE, cooldownTime |-> 0]
    /\ cooldownIntervals = 0
    /\ COOLDOWN_TIME \in cooldowns
    /\ engine = NoEngine
    /\ state = [k \in Segs |-> Leaf(Absent)]
    /\ subscribers = [q \in Paths |-> <<>>]
    /\ handles = {}
    /\ view \in views
    /\ viewport \in viewports
    /\ input = NoInput
    /\ obs = InitObs

\* the state after the application's start-up
Boot(urls, cooldowns) == BootView(urls, cooldowns, {InitialView}, {Desktop})

Init == Boot({"valid", "invalid"}, {1})

\* the callback startHeartbeat() hands to setInterval
HeartbeatCallbackQueued(m) == Send(m, PingMsg(m.now), TRUE)

HeartbeatCallback(m) == IF TransportOpen(m) THEN Send(m, PingMsg(m.now), FALSE) ELSE m

\* the callback scheduleReconnect() hands to setTimeout
ReconnectCallbackUnchecked(m, r) == Connect(m, r)

ReconnectCallback(m, r) == IF ~m.connection.isConnected THEN Connect(m, r) ELSE m

(* ---------------- tasks of the event loop ---------------- *)
\* the bounds of the model: queue and notification list stay within their caps
Fits(m) ==
    /\ Len(m.messageQueue) <= MaxQueue
    /\ Len(m.notifications) <= MaxNotifications

\* a slot is kept for every pending reconnect timer, so a timer's connect() finds one
Room(m) == Cardinality(Live(m)) + m.reconnectTimers < MaxSockets

\* the page calls connect()
UserConnect ==
    /\ ~(isConnecting \/ TransportOpen(St)) => Room(St)
    /\ \E r \in Randoms :
          LET m == Connect(St, r)
          IN /\ Fits(m)
             /\ Apply(m, Obs("connect", Null, 0, NoMsg, FALSE, NoFrame, m))

\* the page calls disconnect()
UserDisconnect ==
    LET m == Disconnect(St)
    IN /\ Fits(m)
       /\ Apply(m, Obs("disconnect", Null, 0, NoMsg, FALSE, NoFrame, m))

\* the page calls send(message, queueIfDisconnected)
UserSend(message, queueIfDisconnected) ==
    LET m == Send(St, message, queueIfDisconnected)
    IN /\ Fits(m)
       /\ Apply(m, Obs("send", Null, 0, message, queueIfDisconnected, NoFrame, m))

\* the browser fires the open event of socket s
SocketOpens(s) ==
    /\ socks[s].rs = "CONNECTING"
    /\ LET m == HandleOpen([St EXCEPT !.socks[s].rs = "OPEN", !.socks[s].estab = TRUE])
       IN Apply(m, Obs("open", s, 0, NoMsg, FALSE, NoFrame, m))

\* the server starts the closing handshake: readyState becomes CLOSING in a task
\* of its own, before the task that fires the close event
ServerStartsClose(s) ==
    /\ socks[s].rs = "OPEN"
    /\ LET m == [St EXCEPT !.socks[s].rs = "CLOSING"]
       IN Apply(m, Obs("closing", s, 0, NoMsg, FALSE, NoFrame, m))

\* the close codes the browser can report for socket s: a clean closure needs an
\* established connection and a closing handshake
CloseCodes(s) ==
    IF socks[s].rs = "CLOSING" /\ socks[s].estab
    THEN {NormalClosure, AbnormalClosure}
    ELSE {AbnormalClosure}

\* readyState CLOSED; the object lives on only while this.ws refers to it
Closed(m, s) ==
    [m EXCEPT !.socks[s] = IF s = m.ws
                           THEN [rs |-> "CLOSED", onclose |-> FALSE, estab |-> FALSE]
                           ELSE FreeSock]

\* the browser fires the close event of socket s, whose onclose is handleClose
SocketCloses(s, code) ==
    /\ socks[s].rs \in {"CONNECTING", "OPEN", "CLOSING"}
    /\ socks[s].onclose
    /\ code \in CloseCodes(s)
    /\ \E r \in Randoms :
          LET m == HandleClose(Closed(St, s), code, r)
          IN /\ Fits(m)
             /\ Apply(m, Obs("close", s, code, NoMsg, FALSE, NoFrame, m))

\* the close event of a socket whose onclose disconnect() set to null
DetachedSocketCloses(s) ==
    /\ socks[s].rs \in {"CONNECTING", "OPEN", "CLOSING"}
    /\ ~socks[s].onclose
    /\ LET m == Closed(St, s)
       IN Apply(m, Obs("detached_close", s, 0, NoMsg, FALSE, NoFrame, m))

\* the connection-timeout callback set in connect()
ConnectionTimeout ==
    \E which \in {"field", "stray"} :
        /\ which = "field" => connectionTimer = "armed"
        /\ which = "stray" => strayConnTimers > 0
        /\ LET m0 == IF which = "field"
                     THEN [St EXCEPT !.connectionTimer = "fired"]
                     ELSE [St EXCEPT !.strayConnTimers = @ - 1]
               m == IF m0.ws # Null /\ m0.socks[m0.ws].rs # "OPEN"
                    THEN [m0 EXCEPT !.socks[m0.ws] = CloseSocket(@)]
                    ELSE m0
           IN Apply(m, Obs("connection_timeout", ws, 0, NoMsg, FALSE, NoFrame, m))

\* the callback of a reconnect timer set in scheduleReconnect()
ReconnectTimerFires ==
    /\ reconnectTimers > 0
    /\ \E r \in Randoms :
          LET m == ReconnectCallback([St EXCEPT !.reconnectTimers = @ - 1], r)
          IN /\ Fits(m)
             /\ Apply(m, Obs("reconnect_timer", Null, 0, NoMsg, FALSE, NoFrame, m))

\* one tick of a heartbeat interval set in startHeartbeat()
HeartbeatTick ==
    /\ heartbeatTimer \/ strayHeartbeats > 0
    /\ LET m == HeartbeatCallback(St)
       IN Apply(m, Obs("heartbeat", Null, 0, NoMsg, FALSE, NoFrame, m))

\* the browser fires a message event of socket s; only an OPEN socket delivers one
Receive(s, frame) ==
    /\ socks[s].rs = "OPEN"
    /\ LET m == HandleMessage(St, frame)
       IN /\ Fits(m)
          /\ Apply(m, Obs("message", s, 0, NoMsg, FALSE, frame, m))

\* a click or tap of the input controller on a valid cell
SelectCell(cell) ==
    LET m == HandlePixelSelection(St, cell)
    IN /\ selectedPixel # cell
       /\ Apply(m, Obs("select", Null, 0, NoMsg, FALSE, NoFrame, m))

\* a click on a palette entry
PickColor(color) ==
    LET m == SelectColor(St, color)
    IN /\ selectedColor # color
       /\ Apply(m, Obs("color", Null, 0, NoMsg, FALSE, NoFrame, m))

\* the confirm button, the floating button or the keyboard shortcut
ConfirmPlacement ==
    LET m == HandlePixelConfirmation(St)
    IN /\ Fits(m)
       /\ Apply(m, Obs("confirm", Null, 0, NoMsg, FALSE, NoFrame, m))

\* one tick of an interval set in startCooldown()
CooldownTimerFires ==
    /\ cooldownIntervals > 0
    /\ LET m == CooldownTick(St)
       IN Apply(m, Obs("cooldown_tick", Null, 0, NoMsg, FALSE, NoFrame, m))

\* the clock advances
\* new RenderEngine(canvas, config) in the application's start-up
MountEngine ==
    /\ ~engine.mounted
    /\ LET m == [St EXCEPT !.engine = NewEngine]
       IN Apply(m, Obs("mount", Null, 0, NoMsg, FALSE, NoFrame, m))

\* the browser runs the frame callback
FrameCallback ==
    /\ engine.mounted
    /\ \E due \in BOOLEAN :
          LET m == RenderFrame(UpdatePerformanceMetrics(St, due))
          IN Apply(m, Obs("frame", Null, 0, NoMsg, due, NoFrame, m))

\* the window is resized
Resize ==
    /\ engine.mounted
    /\ LET m == OnResize(St)
       IN Apply(m, Obs("resize", Null, 0, NoMsg, FALSE, NoFrame, m))

\* the application asks for a repaint
AppForcesRedraw ==
    /\ engine.mounted
    /\ LET m == ForceRedraw(St)
       IN Apply(m, Obs("force_redraw", Null, 0, NoMsg, FALSE, NoFrame, m))

\* one more input event is handled
Gesture(m) == [m EXCEPT !.input.gestures = @ + 1]

\* input events of the canvas element, the document and the window
ViewEvent(op, code, point, m) ==
    /\ input.gestures < MaxGestures
    /\ Apply(Gesture(m), Obs(op, Null, code, NoMsg, m.view.scale # view.scale, NoFrame,
                             [m EXCEPT !.out.point = point]))

MouseDown(point, button) ==
    /\ button \in {0, 2}
    /\ ViewEvent("mouse_down", button, point, HandleMouseDown(St, point, button))

\* mousemove: the drag in progress, if any, follows the pointer
MouseMove(point) ==
    /\ input.drag.on
    /\ ViewEvent("mouse_move", 0, point, UpdateDragPosition(St, point))

\* mouseup of the drag button
MouseUp ==
    /\ input.drag.on
    /\ ViewEvent("mouse_up", 2, <<>>, StopDragging(St))

\* the timer of handleDoubleClick() runs out
DoubleClickExpires ==
    /\ input.doubleClick
    /\ ViewEvent("double_click_timer", 0, <<>>, [St EXCEPT !.input.doubleClick = FALSE])

Wheel(point, delta) ==
    /\ Representable(view, point, 10 + delta, 10)
    /\ ViewEvent("wheel", delta, point, HandleWheel(St, point, delta))

TouchStart(point, touches) ==
    /\ touches \in {1, 2}
    /\ ViewEvent("touch_start", touches, point, HandleTouchStart(St, point, touches))

\* touchmove with two touches
TouchZoom(center, deltaDistance) ==
    /\ input.isZooming
    /\ Representable(view, center, 200 + deltaDistance, 200)
    /\ ViewEvent("touch_zoom", deltaDistance, center,
                 HandleTouchZoom(St, center, deltaDistance))

TouchEnd ==
    /\ input.isZooming \/ input.drag.on
    /\ ViewEvent("touch_end", 0, <<>>, HandleTouchEnd(St))

\* the keys Equal (factor 1.2) and Minus (factor 0.8)
KeyZoom(fn) ==
    /\ fn \in {6, 4}
    /\ Representable(view, CenterPoint(St), fn, 5)
    /\ ViewEvent("key_zoom", fn, CenterPoint(St), ZoomAtCenter(St, fn, 5))

\* the key Digit0
KeyReset ==
    /\ view # ResetZoom(St).view
    /\ ViewEvent("reset_zoom", 0, <<>>, ResetZoom(St))

\* the key Space
KeySpace ==
    /\ view # CenterCanvas(St).view
    /\ ViewEvent("center", 0, <<>>, CenterCanvas(St))

\* the arrow keys, keyboardMoveStep 50
KeyArrow(deltaX, deltaY) ==
    /\ deltaX # 0 \/ deltaY # 0
    /\ ViewEvent("arrow", 0, <<deltaX, deltaY>>, MoveCanvas(St, deltaX, deltaY))

\* the window takes another size
WindowResize(vp) ==
    /\ vp # viewport
    /\ ViewEvent("window_resize", 0, <<>>, HandleWindowResize([St EXCEPT !.viewport = vp]))

\* touchmove with one touch
TouchMove(point) ==
    /\ point[1] >= 0 /\ point[2] >= 0
    /\ ViewEvent("touch_move", 1, point, HandleTouchMove(St, point))

\* touchend with one touch left on the screen
TouchLift ==
    /\ input.isZooming \/ input.drag.on
    /\ ViewEvent("touch_lift", 1, <<0, 0>>, HandleTouchLift(St))

\* the same events, with the numbers of the canvas state held as doubles
WheelF(point, delta) ==
    /\ delta \in {1, -1}
    /\ ViewEvent("wheel", delta, point, HandleWheelF(St, point, delta))

TapF(point) ==
    /\ ~input.isZooming
    /\ ViewEvent("touch_start", 1, point, HandleTouchStartF(St, point))

\* store calls by any module of the page
Subscriptions == {<<(<<"a">>), "f">>, <<(<<"a", "b">>), "f">>, <<(<<"a", "b">>), "g">>}
ValuesAt(path) ==
    IF path = <<"a">> THEN {Leaf(NullVal), Leaf(0), ObjOf(0)}
    ELSE IF path = <<"a", "b">> THEN {Leaf(0), Leaf(1)}
    ELSE {Leaf(1)}
Update == UNION {{[path |-> q, value |-> v] : v \in ValuesAt(q)} : q \in Paths}

\* the entries of an updates object: its keys are distinct
RECURSIVE BatchesUpTo(_)
BatchesUpTo(n) ==
    IF n = 0 THEN {<<>>}
    ELSE LET shorter == BatchesUpTo(n - 1)
         IN shorter \cup {Append(l, u) : l \in shorter, u \in Update}
Batches ==
    {l \in BatchesUpTo(MaxBatch) :
        \A i, j \in 1..Len(l) : i # j => l[i].path # l[j].path}

WithArg(path, value, updates, cb) ==
    [St EXCEPT !.out.arg = [path |-> path, value |-> value, updates |-> updates,
                            cb |-> cb]]

CallSet(path, value) ==
    /\ value \in ValuesAt(path)
    /\ LET m == StoreSet(WithArg(path, value, <<>>, ""), path, value)
       IN Apply(m, Obs("store_set", Null, 0, NoMsg, FALSE, NoFrame, m))

CallBatchUpdate(updates) ==
    /\ Len(updates) <= MaxBatch
    /\ LET m == BatchUpdate(WithArg(<<>>, Leaf(Absent), updates, ""), updates)
       IN Apply(m, Obs("store_batch", Null, 0, NoMsg, FALSE, NoFrame, m))

CallSubscribe(path, cb) ==
    /\ <<path, cb>> \in Subscriptions
    /\ LET m == Subscribe(WithArg(path, Leaf(Absent), <<>>, cb), path, cb)
       IN Apply(m, Obs("store_subscribe", Null, 0, NoMsg, FALSE, NoFrame, m))

CallUnsubscribe(path, cb) ==
    /\ <<path, cb>> \in handles
    /\ LET m == Unsubscribe(WithArg(path, Leaf(Absent), <<>>, cb), path, cb)
       IN Apply(m, Obs("store_unsubscribe", Null, 0, NoMsg, FALSE, NoFrame, m))

Tick ==
    /\ now <= MaxTime
    /\ Apply([St EXCEPT !.now = @ + 1],
             Obs("tick", Null, 0, NoMsg, FALSE, NoFrame, [out |-> NoOut]))

(* ---------------- specifications ---------------- *)
CloseCodeSet == {NormalClosure, AbnormalClosure}

\* the connection life cycle
NextConn ==
    \/ UserConnect
    \/ UserDisconnect
    \/ \E s \in SockIds : SocketOpens(s)
    \/ \E s \in SockIds : ServerStartsClose(s)
    \/ \E s \in SockIds, code \in CloseCodeSet : SocketCloses(s, code)
    \/ \E s \in SockIds : DetachedSocketCloses(s)
    \/ ConnectionTimeout
    \/ ReconnectTimerFires
    \/ HeartbeatTick

SpecConn == Init /\ [][NextConn]_vars

\* automatic recovery: the page connects, the network opens and closes transports,
\* and the browser runs every pending reconnect timer
NextRecovery ==
    \/ UserConnect
    \/ \E s \in SockIds : SocketOpens(s)
    \/ \E s \in SockIds : ServerStartsClose(s)
    \/ \E s \in SockIds, code \in CloseCodeSet : SocketCloses(s, code)
    \/ ConnectionTimeout
    \/ ReconnectTimerFires

\* the manager was constructed with a URL the WebSocket constructor accepts
InitRecovery == Init /\ url = "valid"

SpecRecovery == InitRecovery /\ [][NextRecovery]_vars /\ WF_vars(ReconnectTimerFires)

\* the messages the page hands to send()
OutMsgs == {PixelMsg(1, 11, "#FF0000"), PixelMsg(11, 1, "#000000"), CyclicMsg}

\* the connection life cycle with the page sending
NextQueue ==
    \/ NextConn
    \/ \E message \in OutMsgs, queueIfDisconnected \in BOOLEAN :
          UserSend(message, queueIfDisconnected)

SpecQueue == Init /\ [][NextQueue]_vars

\* the connection life cycle with the heartbeat and one message the page sends
NextHeartbeat ==
    \/ NextConn
    \/ \E queueIfDisconnected \in BOOLEAN :
          UserSend(PixelMsg(1, 11, "#FF0000"), queueIfDisconnected)

SpecHeartbeat == Init /\ [][NextHeartbeat]_vars

\* the frames the server side is let to send
Cells == {<<1, 11>>, <<11, 1>>}
PixelRecs == {[x |-> c[1], y |-> c[2], color |-> col] : c \in Cells, col \in Colors}
RECURSIVE ListsUpTo(_)
ListsUpTo(k) ==
    IF k = 0 THEN {<<>>}
    ELSE LET shorter == ListsUpTo(k - 1)
         IN shorter \cup {Append(l, p) : l \in {q \in shorter : Len(q) = k - 1}, p \in PixelRecs}
UserCounts == {0, 3, Undefined}

Frames ==
    {Untagged("bad", ""), Untagged("null", ""), Untagged("object", "foo"), ErrorFrame}
    \cup {InitFrame(TRUE, l, n) : l \in ListsUpTo(MaxInitLen), n \in {0, 3}}
    \cup {InitFrame(FALSE, <<>>, 3)}
    \cup {PixelUpdateFrame(c[1], c[2], col) : c \in Cells, col \in Colors}
    \cup {PixelUpdateFrame(Undefined, Undefined, "undefined")}
    \cup {UserCountFrame(n) : n \in UserCounts}
    \cup {PongFrame(ts) : ts \in {1, Undefined}}

\* one connection receiving frames
NextMsg ==
    \/ UserConnect
    \/ \E s \in SockIds : SocketOpens(s)
    \/ \E s \in SockIds, frame \in Frames : Receive(s, frame)
    \/ Tick

SpecMsg == Init /\ [][NextMsg]_vars

\* placing pixels: one connection that the server may close, the page's selections
\* and confirmations, the cooldown countdown, and the page's disconnect()
CooldownTimes == {0, 1, 2}
PlaceCells == {<<1, 11>>}
PlaceColors == {"#000000", ""}

InitPlace == Boot({"valid"}, CooldownTimes)

NextPlace ==
    \/ UserConnect
    \/ UserDisconnect
    \/ \E s \in SockIds : SocketOpens(s)
    \/ \E s \in SockIds : ServerStartsClose(s)
    \/ \E s \in SockIds : SocketCloses(s, NormalClosure)
    \/ \E s \in SockIds : DetachedSocketCloses(s)
    \/ \E cell \in PlaceCells : SelectCell(cell)
    \/ \E color \in PlaceColors : PickColor(color)
    \/ ConfirmPlacement
    \/ CooldownTimerFires

SpecPlace == InitPlace /\ [][NextPlace]_vars

\* setInterval runs the countdown callback every second until it is cleared
SpecCooldown == InitPlace /\ [][NextPlace]_vars /\ WF_vars(CooldownTimerFires)

\* the canvas: frames that carry pixels arrive on one connection while the page
\* selects cells and confirms placements
CanvasFrames ==
    {InitFrame(TRUE, l, 3) : l \in ListsUpTo(2)}
    \cup {PixelUpdateFrame(c[1], c[2], col) : c \in Cells, col \in Colors}
    \cup {BatchFrame(l) : l \in ListsUpTo(2) \ {<<>>}}

InitCanvas == Boot({"valid"}, {1})

NextCanvas ==
    \/ UserConnect
    \/ \E s \in SockIds : SocketOpens(s)
    \/ \E s \in SockIds, frame \in CanvasFrames : Receive(s, frame)
    \/ \E cell \in Cells : SelectCell(cell)
    \/ ConfirmPlacement
    \/ CooldownTimerFires

SpecCanvas == InitCanvas /\ [][NextCanvas]_vars

\* the render loop: frame callbacks among canvas writes by messages, selections and
\* placements
PixelFrames == {PixelUpdateFrame(c[1], c[2], col) : c \in PlaceCells, col \in Colors}

NextRender ==
    \/ MountEngine
    \/ UserConnect
    \/ \E s \in SockIds : SocketOpens(s)
    \/ \E s \in SockIds, frame \in PixelFrames : Receive(s, frame)
    \/ \E cell \in Cells : SelectCell(cell)
    \/ ConfirmPlacement
    \/ CooldownTimerFires
    \/ Resize
    \/ AppForcesRedraw
    \/ FrameCallback

SpecRender == InitCanvas /\ [][NextRender]_vars

\* the render loop under the browser's frame scheduling: every canvas path is written
\* (pixels by messages, the selection by clicks, scale and offsets by zoom and pan)
NextPaint ==
    \/ MountEngine
    \/ UserConnect
    \/ \E s \in SockIds : SocketOpens(s)
    \/ \E s \in SockIds, frame \in PixelFrames : Receive(s, frame)
    \/ \E cell \in Cells : SelectCell(cell)
    \/ Wheel(<<Px(400), Px(300)>>, 1)
    \/ KeyArrow(-Px(50), 0)
    \/ FrameCallback

\* requestAnimationFrame runs the callback it is given, and the callback re-arms itself
SpecPaint == InitCanvas /\ [][NextPaint]_vars /\ WF_vars(FrameCallback)

\* JSON.stringify of a Map: a Map has no own enumerable properties, so it is written as
\* {} whatever it holds, and JSON.parse reads an object without entries
JsonOfMap(map) == EmptyMap

\* getSnapshot(): JSON.parse(JSON.stringify(this.state)); numbers, strings, booleans and
\* null are read back as written; a property holding undefined is left out and reads
\* undefined again
GetSnapshot(m) ==
    [pixels |-> JsonOfMap(m.pixels), selectedPixel |-> m.selectedPixel, view |-> m.view,
     user |-> m.user, connection |-> m.connection, state |-> m.state]

\* restoreSnapshot(snapshot): the state is replaced by a JSON copy of the snapshot and
\* _notifyAll() calls every subscriber
RestoreSnapshot(m, snapshot) ==
    MarkCanvas(Notify([m EXCEPT !.pixels = JsonOfMap(snapshot.pixels),
                                !.selectedPixel = snapshot.selectedPixel,
                                !.view = snapshot.view,
                                !.user = snapshot.user,
                                !.connection = snapshot.connection,
                                !.state = snapshot.state]))

\* appState.restoreSnapshot(appState.getSnapshot())
CallRestoreSnapshot ==
    /\ obs.op # "restore"
    /\ LET m == RestoreSnapshot(St, GetSnapshot(St))
       IN Apply(m, Obs("restore", Null, 0, NoMsg, FALSE, NoFrame, m))

\* the canvas up to a snapshot round trip of the store
NextSnapshot ==
    \/ obs.op # "restore" /\ NextCanvas
    \/ CallRestoreSnapshot

SpecSnapshot == InitCanvas /\ [][NextSnapshot]_vars

\* the store used through its interface
NextStore ==
    \/ \E q \in Paths : \E v \in ValuesAt(q) : CallSet(q, v)
    \/ \E updates \in Batches : CallBatchUpdate(updates)
    \/ \E s \in Subscriptions : CallSubscribe(s[1], s[2])
    \/ \E s \in Subscriptions : CallUnsubscribe(s[1], s[2])

SpecStore == InitCanvas /\ [][NextStore]_vars

\* zoom, pan and selection by mouse, touch and keyboard
ViewPoints == {<<Px(400), Px(300)>>, <<0, 0>>}
PinchDeltas == {600, -100, -300}
ArrowSteps == {<<Px(50), 0>>, <<-Px(50), 0>>, <<0, Px(50)>>, <<0, -Px(50)>>}

NextView ==
    \/ \E point \in ViewPoints, button \in {0, 2} : MouseDown(point, button)
    \/ \E point \in ViewPoints : MouseMove(point)
    \/ MouseUp
    \/ DoubleClickExpires
    \/ \E point \in ViewPoints, delta \in {1, -1} : Wheel(point, delta)
    \/ \E point \in ViewPoints, touches \in {1, 2} : TouchStart(point, touches)
    \/ \E center \in ViewPoints, d \in PinchDeltas : TouchZoom(center, d)
    \/ TouchEnd
    \/ \E fn \in {6, 4} : KeyZoom(fn)
    \/ KeyReset
    \/ KeySpace
    \/ \E d \in ArrowSteps : KeyArrow(d[1], d[2])
    \/ \E vp \in Viewports : WindowResize(vp)

SpecView == InitCanvas /\ [][NextView]_vars


\* the limits on the offsets, for the offsets, scales and window sizes a pan can find
CandidateOffsets == {-Px(200000), -Px(100), 0, Px(30), Px(200000)}
CandidateScales == {ScaleOf(1, 10), ScaleOf(1, 5), ScaleOf(1, 1), ScaleOf(20, 1)}
CandidateViews ==
    {[scale |-> sc, offsetX |-> ox, offsetY |-> oy] :
        sc \in CandidateScales, ox \in CandidateOffsets, oy \in CandidateOffsets}

InitClamp == BootView({"valid"}, {1}, CandidateViews, Viewports)

NextClamp == \E d \in ArrowSteps : KeyArrow(d[1], d[2])

SpecClamp == InitClamp /\ [][NextClamp]_vars

\* the touch screen: one-finger drags, pinches, fingers lifted
NextTouch ==
    \/ \E point \in ViewPoints, touches \in {1, 2} : TouchStart(point, touches)
    \/ \E point \in ViewPoints : TouchMove(point)
    \/ \E center \in ViewPoints, deltaDistance \in PinchDeltas :
          TouchZoom(center, deltaDistance)
    \/ TouchLift
    \/ TouchEnd

SpecTouch == InitCanvas /\ [][NextTouch]_vars

\* zoom by the wheel and selection by taps, in the arithmetic of the engine
WheelPoints == {<<400, 300>>}
TapPoints == {<<521, 310>>, <<400, 300>>}

InitRoundTrip == BootView({"valid"}, {1}, {InitialViewF}, {DesktopF})

NextRoundTrip ==
    \/ \E point \in WheelPoints, delta \in {1, -1} : WheelF(point, delta)
    \/ \E point \in TapPoints : TapF(point)

SpecRoundTrip == InitRoundTrip /\ [][NextRoundTrip]_vars

(* ---------------- claims ---------------- *)
\* what every task leaves alone besides the record of the task itself
managerAndStore == <<socks, ws, isConnecting, reconnectAttempts, heartbeatTimer,
                     connectionTimer, strayHeartbeats, strayConnTimers, reconnectTimers,
                     messageQueue, connection, pixels, notifications, appConnected>>

\* a reconnect timer's callback that opened a new transport
AutomaticAttempt(o) == o.op = "reconnect_timer" /\ o.created

\* C2: after a manual disconnect() has returned, the task that runs next is never a
\* reconnect timer that opens a new transport
C2_NoAttemptAfterDisconnect ==
    [][obs.op = "disconnect" => ~AutomaticAttempt(obs')]_vars

\* C3: reconnectAttempts never exceeds maxReconnectAttempts, and once an abnormal close
\* found the counter at the maximum (so it scheduled nothing), the task that runs next
\* is never a reconnect timer that opens a new transport
C3_TerminalAfterGiveUp ==
    [][/\ reconnectAttempts' <= maxReconnectAttempts
       /\ (obs.op = "close" /\ obs.code # NormalClosure /\ ~obs.scheduled)
             => ~AutomaticAttempt(obs')]_vars

C5_Backoff ==
    obs.scheduled =>
        LET n == reconnectAttempts
            expected == Min(reconnectInterval * 2 ^ (n - 1), maxReconnectInterval)
            previous == Min(reconnectInterval * 2 ^ (n - 2), maxReconnectInterval)
        IN /\ n \in 1..maxReconnectAttempts
           /\ obs.base = expected
           /\ obs.base <= maxReconnectInterval
           /\ obs.delay >= obs.base
           /\ n > 1 => /\ obs.base >= previous
                       /\ previous < maxReconnectInterval => obs.base > previous

C5_Witness ==
    /\ obs.scheduled
    /\ reconnectAttempts = 6
    /\ obs.base = maxReconnectInterval
    /\ obs.delay > obs.base

\* C7: connect() while the manager is connecting or its transport is open changes
\* nothing: no socket, no timer, no manager field, no store value
C7_ConnectNoOp ==
    [][(obs'.op = "connect" /\ (isConnecting \/ TransportOpen(St)))
          => /\ UNCHANGED managerAndStore
             /\ ~obs'.created /\ ~obs'.scheduled]_vars

C7_Witness ==
    /\ obs.op = "connect"
    /\ ~obs.created
    /\ isConnecting
    /\ connectionTimer = "armed"

\* C8 as claimed: every handled close event clears the timers and marks the store
\* disconnected, and schedules a reconnect exactly when the code is not 1000
C8_CloseSchedulesUnlessNormal ==
    [][obs'.op = "close"
          => /\ ~heartbeatTimer' /\ connectionTimer' = "null"
             /\ strayHeartbeats' = 0 /\ strayConnTimers' = 0
             /\ ~connection'.isConnected
             /\ obs'.scheduled <=> obs'.code # NormalClosure]_vars

\* C8 as amended: ... exactly when the code is not 1000 and reconnectAttempts is
\* below maxReconnectAttempts
C8_CloseSchedulesBelowCap ==
    [][obs'.op = "close"
          => /\ ~heartbeatTimer' /\ connectionTimer' = "null"
             /\ strayHeartbeats' = 0 /\ strayConnTimers' = 0
             /\ ~connection'.isConnected
             /\ obs'.scheduled <=> (/\ obs'.code # NormalClosure
                                    /\ reconnectAttempts < maxReconnectAttempts)]_vars

C8_Witness ==
    /\ obs.op = "close"
    /\ obs.code # NormalClosure
    /\ ~obs.scheduled
    /\ reconnectAttempts = maxReconnectAttempts

\* JSON.stringify of each queued message, in queue order
Serialized(queue) == [i \in 1..Len(queue) |-> Stringify(queue[i])]

\* C1: a send() of a serializable message with queueing on while the transport is not
\* open appends it to the queue, and a handled open event transmits exactly the queued
\* messages, once each and in order, nothing else (no ping), and leaves the queue empty
C1_QueueFlushedOnOpen ==
    [][/\ (obs'.op = "send" /\ obs'.flag /\ Serializable(obs'.msg) /\ ~TransportOpen(St))
             => messageQueue' = Append(messageQueue, obs'.msg)
       /\ obs'.op = "open"
             => /\ obs'.tx = Serialized(messageQueue)
                /\ messageQueue' = <<>>]_vars

\* C6: send() never throws; it returns true exactly when the transport is open, and then
\* hands over the serialized message and leaves the queue alone; otherwise it appends
\* the message once if queueIfDisconnected is set and leaves the queue alone if not
C6_SendNeverThrows ==
    [][obs'.op = "send"
          => /\ ~obs'.threw
             /\ obs'.ret <=> TransportOpen(St)
             /\ obs'.ret => /\ obs'.tx = <<Stringify(obs'.msg)>>
                            /\ messageQueue' = messageQueue
             /\ ~obs'.ret => /\ obs'.tx = <<>>
                             /\ messageQueue' = IF obs'.flag
                                                THEN Append(messageQueue, obs'.msg)
                                                ELSE messageQueue]_vars

\* a frame that does not parse to an object, carries an unknown tag, or carries a
\* known tag with a body that lacks what the tag needs
BadFrame(f) ==
    \/ f.json # "object"
    \/ f.type \notin KnownTags
    \/ f.type = "init" /\ ~f.hasPixels
    \/ f.type = "pixel_update" /\ (f.x = Undefined \/ f.y = Undefined \/ f.color = "undefined")
    \/ f.type = "user_count" /\ f.n = Undefined
    \/ f.type = "pong" /\ f.timestamp = Undefined

\* C9: a bad frame makes the message handler neither throw, nor close a transport, nor
\* schedule a reconnect, and canvas.pixels, connection.* and the queue stay as they were
C9_BadFrameDropped ==
    [][(obs'.op = "message" /\ BadFrame(obs'.frame))
          => /\ ~obs'.threw /\ ~obs'.scheduled
             /\ UNCHANGED <<socks, ws, reconnectTimers, pixels, connection, messageQueue>>]_vars

\* C10: after an init frame with pixel list L and online_users N, canvas.pixels has one
\* entry per distinct cell of L, each with the color of the cell's last listing, and
\* nothing else, and connection.onlineUsers = N
C10_InitReplacesPixels ==
    [][(obs'.op = "message" /\ obs'.frame.type = "init" /\ obs'.frame.hasPixels)
          => LET L == obs'.frame.pixels
                 cells == {<<L[i].x, L[i].y>> : i \in 1..Len(L)}
                 last(c) == CHOOSE i \in 1..Len(L) :
                               /\ <<L[i].x, L[i].y>> = c
                               /\ \A j \in 1..Len(L) : <<L[j].x, L[j].y>> = c => j <= i
             IN /\ Cardinality(DOMAIN pixels') = Cardinality(cells)
                /\ \A c \in cells : /\ Key(c[1], c[2]) \in DOMAIN pixels'
                                    /\ pixels'[Key(c[1], c[2])] = L[last(c)].color
                /\ connection'.onlineUsers = obs'.frame.n]_vars

C10_Witness ==
    /\ obs.op = "message"
    /\ obs.frame.type = "init"
    /\ Len(obs.frame.pixels) = 2
    /\ obs.frame.pixels[1].x = obs.frame.pixels[2].x
    /\ obs.frame.pixels[1].y = obs.frame.pixels[2].y
    /\ obs.frame.pixels[1].color # obs.frame.pixels[2].color
    /\ DOMAIN pixels = {"1,11"}
    /\ pixels["1,11"] = obs.frame.pixels[2].color
    /\ connection.onlineUsers = 3

\* the color canvas.pixels holds for a cell, "none" when it holds no entry
CellColor(map, c) == IF Key(c[1], c[2]) \in DOMAIN map THEN map[Key(c[1], c[2])] ELSE "none"

\* the color of the last entry of a pixel list for a cell, "none" when none mentions it
LastColor(list, c) ==
    LET hits == {i \in 1..Len(list) : <<list[i].x, list[i].y>> = c}
    IN IF hits = {} THEN "none"
       ELSE list[CHOOSE i \in hits : \A j \in hits : j <= i].color

\* the cells a frame mentions with their colors, in the frame's order
MentionList(f) ==
    IF f.json # "object" THEN <<>>
    ELSE IF f.type = "init" /\ f.hasPixels THEN f.pixels
    ELSE IF f.type = "pixel_update" /\ f.hasUpdates THEN f.updates
    ELSE IF f.type = "pixel_update" /\ f.x # Undefined /\ f.y # Undefined
         THEN <<[x |-> f.x, y |-> f.y, color |-> f.color]>>
    ELSE <<>>

\* C11: every task leaves each cell with the color of the last mention of the cell in
\* the message or placement it handled; a cell it does not mention keeps its color,
\* except that an init snapshot removes it
C11_LastWriteWins ==
    [][\A c \in Cells :
          LET placed == obs'.op = "confirm" /\ ~user.isCooldown /\ user'.isCooldown
              list == IF obs'.op = "message" THEN MentionList(obs'.frame)
                      ELSE IF placed
                      THEN <<[x |-> selectedPixel[1], y |-> selectedPixel[2],
                              color |-> selectedColor]>>
                      ELSE <<>>
              reset == obs'.op = "message" /\ obs'.frame.type = "init"
                       /\ obs'.frame.hasPixels
          IN CellColor(pixels', c) =
                IF LastColor(list, c) # "none" THEN LastColor(list, c)
                ELSE IF reset THEN "none"
                ELSE CellColor(pixels, c)]_vars

\* C12: a batched pixel_update leaves every listed cell with its last listed color, and
\* adds or changes no other entry of canvas.pixels
C12_BatchApplied ==
    [][(obs'.op = "message" /\ obs'.frame.type = "pixel_update" /\ obs'.frame.hasUpdates)
          => LET L == obs'.frame.updates
                 listed == {Key(L[i].x, L[i].y) : i \in 1..Len(L)}
             IN /\ \A i \in 1..Len(L) :
                      CellColor(pixels', <<L[i].x, L[i].y>>)
                          = LastColor(L, <<L[i].x, L[i].y>>)
                /\ \A k \in DOMAIN pixels' \ listed :
                      k \in DOMAIN pixels /\ pixels'[k] = pixels[k]]_vars

\* the message a confirmation builds from the selection
PlacementMsg == PixelMsg(selectedPixel[1], selectedPixel[2], selectedColor)

\* the cell is written and the cooldown started by the step
PlacedAndCooling ==
    /\ CellColor(pixels', selectedPixel) = selectedColor
    /\ user' = [isCooldown |-> TRUE, cooldownTime |-> COOLDOWN_TIME]

\* C13 as stated: a confirmation while the store reports connected, off cooldown, with a
\* cell and a color selected transmits exactly one pixel_update, writes the cell and starts
\* the cooldown at COOLDOWN_TIME
C13_ConfirmTransmits ==
    [][(/\ obs'.op = "confirm"
        /\ connection.isConnected
        /\ ~user.isCooldown
        /\ selectedPixel # NullPixel
        /\ selectedColor # "")
          => /\ obs'.tx = <<Stringify(PlacementMsg)>>
             /\ PlacedAndCooling]_vars

\* C13 amended: a confirmation while the page holds itself connected, off cooldown, with
\* a cell and a color selected hands exactly one pixel_update to send, which transmits it
\* when the manager's transport is open and appends it to the queue otherwise; the cell
\* is written, the cooldown started at COOLDOWN_TIME and the selection cleared
C13_ConfirmSendsOrQueues ==
    [][(/\ obs'.op = "confirm"
        /\ appConnected
        /\ ~user.isCooldown
        /\ selectedPixel # NullPixel
        /\ selectedColor # "")
          => /\ IF TransportOpen(St)
                THEN /\ obs'.tx = <<Stringify(PlacementMsg)>>
                     /\ messageQueue' = messageQueue
                ELSE /\ obs'.tx = <<>>
                     /\ messageQueue' = Append(messageQueue, PlacementMsg)
             /\ PlacedAndCooling
             /\ selectedPixel' = NullPixel
             /\ cooldownIntervals' = cooldownIntervals + 1]_vars

C13_Witness ==
    /\ obs.op = "confirm"
    /\ Len(obs.tx) = 1
    /\ user.isCooldown
    /\ user.cooldownTime = COOLDOWN_TIME
    /\ COOLDOWN_TIME > 0
    /\ DOMAIN pixels # {}

\* C14: a confirmation with no cell selected, or on cooldown, or while the store reports
\* not connected transmits nothing, queues nothing and leaves the canvas, the selection
\* and the cooldown as they were
C14_RejectedSendsNothing ==
    [][(/\ obs'.op = "confirm"
        /\ \/ selectedPixel = NullPixel
           \/ user.isCooldown
           \/ ~connection.isConnected)
          => /\ obs'.tx = <<>>
             /\ messageQueue' = messageQueue
             /\ pixels' = pixels
             /\ selectedPixel' = selectedPixel
             /\ user' = user]_vars

\* C15: when a handler or timer callback has returned, a cooldownTime of 0 goes with
\* isCooldown = false, whatever cooldown duration is configured
C15_ZeroMeansOff == user.cooldownTime = 0 => ~user.isCooldown

\* C16: no subscriber callback invoked during a task reads isCooldown = true together
\* with cooldownTime = 0 from the store
C16_NeverSeenStuck == \A g \in obs.seen : ~(g.isCooldown /\ g.cooldownTime = 0)

\* C17: a frame callback paints at most once; it paints exactly once when one or more
\* canvas.* writes happened since the previous callback, paints nothing when it finds
\* needsRedraw clear, and leaves needsRedraw clear
C17_OnePaintPerFrame ==
    [][obs'.op = "frame"
          => /\ obs'.paints <= 1
             /\ engine.writes >= 1 => obs'.paints = 1
             /\ ~engine.needsRedraw => obs'.paints = 0
             /\ ~engine'.needsRedraw]_vars

C17_Witness ==
    /\ obs.op = "frame"
    /\ obs.paints = 1
    /\ DOMAIN pixels # {}
    /\ selectedPixel # NullPixel

\* one path is the other or lies above it
IsPrefix(q, r) == Len(q) <= Len(r) /\ SubSeq(r, 1, Len(q)) = q
Related(q, r) == IsPrefix(q, r) \/ IsPrefix(r, q)

\* the invocations of a callback as a subscriber of a path during the last task
CallsOf(log, cb, at) == {i \in 1..Len(log) : log[i].cb = cb /\ log[i].at = at}

\* C18: set(path, v) leaves get(path) = v, which every callback it invokes already
\* reads; each subscriber of the path is invoked exactly once with (v, previous value),
\* each subscriber of a proper ancestor exactly once with the ancestor's value after the
\* write; values at unrelated paths stay
C18_SetNotifies ==
    [][obs'.op = "store_set"
          => LET q == obs'.arg.path
                 v == obs'.arg.value
                 log == obs'.calls
             IN /\ GetNestedValue(state', q) = v
                /\ \A i \in 1..Len(log) : GetNestedValue(log[i].view, q) = v
                /\ \A i \in 1..Len(subscribers[q]) :
                      \E j \in 1..Len(log) :
                         /\ CallsOf(log, subscribers[q][i], q) = {j}
                         /\ log[j].value = v
                         /\ log[j].old = GetNestedValue(state, q)
                /\ \A r \in Paths :
                      (IsPrefix(r, q) /\ r # q)
                         => \A i \in 1..Len(subscribers[r]) :
                               \E j \in 1..Len(log) :
                                  /\ CallsOf(log, subscribers[r][i], r) = {j}
                                  /\ log[j].value = GetNestedValue(state', r)
                /\ \A r \in Paths :
                      ~Related(q, r) => GetNestedValue(state', r) = GetNestedValue(state, r)
            ]_vars

\* C19 as stated: every callback invoked by a batchUpdate reads, for every path of the
\* batch, the value the batch gives it
C19_BatchSeesEveryValue ==
    [][obs'.op = "store_batch"
          => \A i \in 1..Len(obs'.calls), k \in 1..Len(obs'.arg.updates) :
                GetNestedValue(obs'.calls[i].view, obs'.arg.updates[k].path)
                    = obs'.arg.updates[k].value]_vars

\* C19 amended: every callback invoked by a batchUpdate runs when all writes of the batch
\* are applied, and reads the batch's value at every path of the batch that no later
\* entry of the batch overwrites through the same, an ancestor or a descendant path
C19_BatchWritesFirst ==
    [][obs'.op = "store_batch"
          => LET L == obs'.arg.updates
             IN \A i \in 1..Len(obs'.calls) :
                   /\ obs'.calls[i].view = state'
                   /\ \A k \in 1..Len(L) :
                         (\A j \in (k + 1)..Len(L) : ~Related(L[j].path, L[k].path))
                            => GetNestedValue(obs'.calls[i].view, L[k].path) = L[k].value
            ]_vars

C19_Witness ==
    /\ obs.op = "store_batch"
    /\ Len(obs.arg.updates) = 2
    /\ Len(obs.calls) >= 2
    /\ \E i \in 1..Len(obs.calls) : obs.calls[i].at # obs.arg.updates[2].path

\* C20: the subscribers of a path are a set: subscribing a callback that is subscribed
\* changes nothing and a set() invokes a callback at most once per path; only callbacks
\* subscribed at the time are invoked, so none is after its unsubscribe; unsubscribing
\* removes that callback from that path alone, and a repeated call changes nothing
C20_SubscribersAreASet ==
    [][/\ obs'.op = "store_subscribe"
          => LET q == obs'.arg.path
                 cb == obs'.arg.cb
             IN /\ Cardinality({i \in 1..Len(subscribers'[q]) : subscribers'[q][i] = cb}) = 1
                /\ Has(subscribers[q], cb) => subscribers' = subscribers
       /\ obs'.op = "store_set"
          => \A s \in Subscriptions : Cardinality(CallsOf(obs'.calls, s[2], s[1])) <= 1
       /\ obs'.op \in {"store_set", "store_batch"}
          => \A i \in 1..Len(obs'.calls) :
                Has(subscribers[obs'.calls[i].at], obs'.calls[i].cb)
       /\ obs'.op = "store_unsubscribe"
          => LET q == obs'.arg.path
                 cb == obs'.arg.cb
             IN /\ ~Has(subscribers'[q], cb)
                /\ \A r \in Paths :
                      subscribers'[r] = IF r = q THEN Without(subscribers[r], cb)
                                        ELSE subscribers[r]
                /\ ~Has(subscribers[q], cb) => subscribers' = subscribers
                /\ state' = state
                /\ obs'.calls = <<>>]_vars

C20_Witness ==
    /\ obs.op = "store_set"
    /\ obs.arg.path = <<"a", "b">>
    /\ <<(<<"a", "b">>), "g">> \in handles
    /\ ~Has(subscribers[<<"a", "b">>], "g")
    /\ Has(subscribers[<<"a", "b">>], "f")
    /\ Len(obs.calls) >= 1

\* C21: set(path, v) never throws and leaves get(path) = v, whatever the store holds at
\* the segments of the path
C21_SetNeverThrows ==
    [][obs'.op = "store_set"
          => /\ ~obs'.threw
             /\ GetNestedValue(state', obs'.arg.path) = obs'.arg.value]_vars

\* C22: after any wheel, pinch and keyboard zoom and any zoom reset, canvas.scale lies
\* within the configured bounds [MIN_SCALE, MAX_SCALE]
C22_ScaleWithinConfig == MIN_SCALE <= view.scale /\ view.scale <= MAX_SCALE

\* the raw cell under a screen point: the floors screenToCanvas() computes
CellUnder(v, point) ==
    <<(point[1] - v.offsetX) \div PixelSide(v.scale),
      (point[2] - v.offsetY) \div PixelSide(v.scale)>>

InGrid(cell) ==
    /\ 0 <= cell[1] /\ cell[1] < CANVAS_WIDTH
    /\ 0 <= cell[2] /\ cell[2] < CANVAS_HEIGHT

\* C23: canvas.selectedPixel is null or a cell of the grid, and a click or tap on a
\* screen point outside the grid selects nothing and raises no error
C23_SelectionInGrid ==
    [][/\ (selectedPixel' = NullPixel) \/ InGrid(selectedPixel')
       /\ (/\ obs'.op \in {"mouse_down", "touch_start"}
            /\ obs'.code \in {0, 1}
            /\ ~InGrid(CellUnder(view, obs'.point)))
          => (selectedPixel' = selectedPixel /\ ~obs'.threw)]_vars

\* a cell is selected, and then a click outside the grid was handled
C23_Witness ==
    /\ obs.op = "mouse_down" /\ obs.code = 0
    /\ ~InGrid(CellUnder(view, obs.point))
    /\ selectedPixel # NullPixel

\* a zoom about a screen point that changed the scale has just been handled
ZoomedStep == obs'.op \in {"wheel", "touch_zoom", "key_zoom"} /\ obs'.flag

\* (point - offset') / scale' = (point - offset) / scale, cross-multiplied
SameWorld(point, offset, scale, newOffset, newScale) ==
    LET g == GCD(newScale, scale)
    IN (point - newOffset) * (scale \div g) = (point - offset) * (newScale \div g)

\* the two ends of the range the offsets are limited to, per axis
LimitsX(scale, vp) ==
    LET slack == vp.w - Scaled(logicalCanvasWidth, scale)
    IN IF slack < 0 THEN {slack, 0} ELSE {-slack, slack}

LimitsY(scale, vp) ==
    LET slack == vp.h - Scaled(logicalCanvasHeight, scale)
    IN IF slack < 0 THEN {slack, headerHeight} ELSE {headerHeight - slack, headerHeight + slack}

C25_ClampIdempotent ==
    [][(obs'.op \in {"arrow", "mouse_move"} \/ ZoomedStep) =>
          /\ ClampX(view'.offsetX, view'.scale, viewport') = view'.offsetX
          /\ ClampY(view'.offsetY, view'.scale, viewport') = view'.offsetY]_vars

\* after a pan at scale 0.2 in the desktop window: the canvas is wider than the window
\* and lower than it, and both offsets were moved to an end of their range
C25_Witness ==
    /\ obs.op = "arrow"
    /\ Scaled(logicalCanvasWidth, view.scale) > viewport.w
    /\ Scaled(logicalCanvasHeight, view.scale) <= viewport.h
    /\ view.offsetX = viewport.w - Scaled(logicalCanvasWidth, view.scale)
    /\ view.offsetY = headerHeight + (viewport.h - Scaled(logicalCanvasHeight, view.scale))

\* the point lies in the rectangle r on both axes
InRect(r, point) ==
    /\ ~FLess(Num(point[1]), r.left)
    /\ FLess(FSub(Num(point[1]), r.left), r.side)
    /\ ~FLess(Num(point[2]), r.top)
    /\ FLess(FSub(Num(point[2]), r.top), r.side)

\* the rectangle passed to fillRect for the cell holds the point
InsideF(v, cell, point) == InRect(CellRectF(v, cell), point)

\* the grid cells next to the one a point is mapped to
Around(cell) ==
    {c \in {<<cell[1] + dx, cell[2] + dy>> : dx \in {-1, 0, 1}, dy \in {-1, 0, 1}} :
        InGrid(c)}

\* C26: a tap on a screen point inside the rectangle the renderer draws for a grid cell
\* selects exactly that cell
C26_RoundTrip ==
    [][obs'.op = "touch_start" =>
          \A cell \in Around(selectedPixel') :
              InsideF(view, cell, obs'.point) => selectedPixel' = cell]_vars

\* the manager holds a transport whose open event was handled and whose close event
\* was not
LiveTransport(m) ==
    /\ m.ws # Null
    /\ m.socks[m.ws].estab
    /\ m.socks[m.ws].rs \in {"OPEN", "CLOSING"}

\* C27: when a handler has returned, connection.isConnected = true goes with a transport
\* of the manager that has opened and has not closed; and a handler that closed or
\* replaced the manager's transport leaves connection.isConnected = false
C27_ConnectedMeansLive ==
    [][/\ connection'.isConnected => LiveTransport(St')
       /\ (ws' # ws \/ (ws' # Null /\ socks'[ws'].rs = "CLOSED"))
             => ~connection'.isConnected]_vars

\* what a reconnect timer's callback can change: everything but the count of pending
\* timers, which its own firing lowers
managerAndStoreButTimers ==
    <<socks, ws, isConnecting, reconnectAttempts, heartbeatTimer, connectionTimer,
      strayHeartbeats, strayConnTimers, messageQueue, connection, pixels, notifications,
      appConnected>>

\* C28: a reconnect timer that fires while the store reports connection.isConnected =
\* true creates no transport, schedules nothing and leaves manager and store as they were
C28_TimerSkippedWhenConnected ==
    [][(obs'.op = "reconnect_timer" /\ connection.isConnected)
          => /\ UNCHANGED managerAndStoreButTimers
             /\ reconnectTimers' = reconnectTimers - 1
             /\ ~obs'.created /\ ~obs'.scheduled]_vars

\* a timer has just been skipped while the manager's transport was closing
C28_Witness ==
    /\ obs.op = "reconnect_timer"
    /\ connection.isConnected
    /\ ~obs.created
    /\ ws # Null /\ socks[ws].rs = "CLOSING"

\* C29: a handled open event and a disconnect() leave the manager's reconnectAttempts
\* and the store's connection.reconnectAttempts at 0, and when any handler has returned
\* the two counters are equal
C29_AttemptCountersAgree ==
    [][/\ obs'.op \in {"open", "disconnect"}
             => (reconnectAttempts' = 0 /\ connection'.reconnectAttempts = 0)
       /\ reconnectAttempts' = connection'.reconnectAttempts]_vars

\* disconnect() has returned with a reconnect timer of an earlier attempt still pending
C29_Witness ==
    /\ obs.op = "disconnect"
    /\ reconnectTimers > 0
    /\ reconnectAttempts = 0
    /\ connection.reconnectAttempts = 0

NoPing(queue) == \A i \in DOMAIN queue : queue[i].type # "ping"

\* C30: the outbound queue never holds a ping, so the flush of a handled open event
\* transmits queued messages only, none of them a ping; and a heartbeat tick while the
\* transport is not open transmits nothing and queues nothing
C30_PingNeverQueued ==
    [][/\ NoPing(messageQueue')
       /\ obs'.op = "open"
             => \A i \in DOMAIN obs'.tx :
                    \E j \in DOMAIN messageQueue :
                        /\ messageQueue[j].type # "ping"
                        /\ obs'.tx[i] = Stringify(messageQueue[j])
       /\ (obs'.op = "heartbeat" /\ ~TransportOpen(St))
             => (obs'.tx = <<>> /\ messageQueue' = messageQueue)]_vars

\* a heartbeat interval has just ticked while the manager's transport was not open and
\* a message was waiting in the queue
C30_Witness ==
    /\ obs.op = "heartbeat"
    /\ ~TransportOpen(St)
    /\ obs.tx = <<>>
    /\ Len(messageQueue) > 0

\* C31: isDragging and isZooming are never both true; a second touch that starts a pinch
\* discards the recorded drag start; and the one-finger move after a finger was lifted
\* applies no pan
C31_ZoomCancelsDrag ==
    [][/\ ~(input'.drag.on /\ input'.isZooming)
       /\ (obs'.op = "touch_start" /\ obs'.code = 2 /\ input'.isZooming)
             => input'.drag = NoDrag
       /\ (obs.op = "touch_lift" /\ obs'.op = "touch_move")
             => (view'.offsetX = view.offsetX /\ view'.offsetY = view.offsetY)]_vars

\* a pan (arrow key or mouse drag) or a zoom that changed the scale has just been handled
PanOrZoomStep == obs'.op \in {"arrow", "mouse_move"} \/ ZoomedStep

\* the offset lies between viewportSize - scaledCanvasSize and top
Within(offset, viewportSize, scaledSize, top) ==
    /\ viewportSize - scaledSize <= offset
    /\ offset <= top

\* C32 as stated: after every pan or zoom step, on each axis on which the scaled canvas
\* is larger than the visible area, viewportSize - scaledCanvasSize <= offset <= 0
C32_OffsetWithinEdges ==
    [][PanOrZoomStep =>
          /\ Scaled(logicalCanvasWidth, view'.scale) > viewport'.w
                => Within(view'.offsetX, viewport'.w,
                          Scaled(logicalCanvasWidth, view'.scale), 0)
          /\ Scaled(logicalCanvasHeight, view'.scale) > viewport'.h
                => Within(view'.offsetY, viewport'.h,
                          Scaled(logicalCanvasHeight, view'.scale), 0)]_vars

\* C32: after every pan or zoom step, on each axis on which the scaled canvas is larger
\* than the visible area, the offset is at least viewportSize - scaledCanvasSize and at
\* most 0 on X, at most the header height on Y
C32_OffsetWithinEdgesBelowHeader ==
    [][PanOrZoomStep =>
          /\ Scaled(logicalCanvasWidth, view'.scale) > viewport'.w
                => Within(view'.offsetX, viewport'.w,
                          Scaled(logicalCanvasWidth, view'.scale), 0)
          /\ Scaled(logicalCanvasHeight, view'.scale) > viewport'.h
                => Within(view'.offsetY, viewport'.h,
                          Scaled(logicalCanvasHeight, view'.scale), headerHeight)]_vars

\* after a pan with the canvas larger than the window on both axes: offsetY is at the
\* header height, above 0
C32_Witness ==
    /\ obs.op = "arrow"
    /\ Scaled(logicalCanvasWidth, view.scale) > viewport.w
    /\ Scaled(logicalCanvasHeight, view.scale) > viewport.h
    /\ view.offsetX < 0
    /\ view.offsetY = headerHeight

\* C33: a paint that found the bitmap's size different from the measured size, and
\* resized it, leaves the engine dirty when it finishes
C33_ResizeLeavesDirty ==
    [][(/\ obs'.op = "frame"
        /\ engine.needsRedraw /\ ~engine.isRendering
        /\ engine.layoutStale)
          => engine'.needsRedraw]_vars

\* C34: a change of canvas.* sets needsRedraw, no task but a frame callback clears it,
\* the frame callback that finds it set paints the canvas state of that moment, the
\* frame callback that finds it clear paints nothing and leaves it clear whatever
\* performance.* writes it makes; so a dirty engine is eventually painted from the
\* state the store then holds
C34_NoWriteLost ==
    /\ [][/\ (engine.mounted /\ obs'.op # "frame" /\ Picture(St)' # Picture(St))
                => engine'.needsRedraw
          /\ (engine.mounted /\ engine.needsRedraw /\ obs'.op # "frame")
                => engine'.needsRedraw
          /\ (obs'.op = "frame" /\ engine.needsRedraw)
                => (obs'.paints = 1 /\ obs'.painted = Picture(St))
          /\ (obs'.op = "frame" /\ ~engine.needsRedraw)
                => (obs'.paints = 0 /\ ~engine'.needsRedraw)]_vars
    /\ (engine.mounted /\ engine.needsRedraw)
          ~> (obs.op = "frame" /\ obs.paints = 1 /\ obs.painted = Picture(St))

\* a frame callback that wrote performance.fps has painted a canvas with a pixel, a
\* selection and a changed scale and offset
C34_Witness ==
    /\ obs.op = "frame" /\ obs.flag
    /\ obs.paints = 1
    /\ obs.painted = Picture(St)
    /\ DOMAIN pixels # {}
    /\ selectedPixel # NullPixel
    /\ view.scale # ScaleOf(1, 1)
    /\ view.offsetX < 0

\* C35: restoreSnapshot(getSnapshot()) leaves every value readable through get
\* unchanged, canvas.pixels with the same cells and colors included, and the subscribers
\* are called with those values
C35_SnapshotRoundTrip ==
    [][obs'.op = "restore"
          => /\ pixels' = pixels
             /\ selectedPixel' = selectedPixel /\ view' = view
             /\ user' = user /\ connection' = connection /\ state' = state
             /\ obs'.seen = {Glimpse(St)}]_vars

\* the transports the manager created that are connecting or open with the manager's
\* callbacks attached
WiredLive(m) == {s \in SockIds : m.socks[s].rs \in {"CONNECTING", "OPEN"} /\ m.socks[s].onclose}

\* C36: at most one transport of the manager is connecting or open with its callbacks
\* attached, and the close event of a transport that is not the manager's current one
\* leaves isConnecting and the timers of the current one as they were
C36_OneLiveTransport ==
    [][/\ Cardinality(WiredLive(St')) <= 1
       /\ (obs'.op = "close" /\ obs'.sock # ws)
             => /\ isConnecting' = isConnecting
                /\ heartbeatTimer' = heartbeatTimer
                /\ connectionTimer' = connectionTimer]_vars

\* a transport with the manager's callbacks attached whose open event was handled and
\* whose close event was not
OpenedWired(m) ==
    {s \in SockIds : /\ m.socks[s].onclose /\ m.socks[s].estab
                     /\ m.socks[s].rs \in {"OPEN", "CLOSING"}}

\* C37: no heartbeat interval and no connection timeout exists besides the one the
\* manager's field holds; a heartbeat interval exists only while a transport that opened
\* has not closed and disconnect() was not called; and the connection timeout's callback
\* closes no transport that has opened
C37_TimersSingle ==
    [][/\ strayHeartbeats' = 0 /\ strayConnTimers' = 0
       /\ heartbeatTimer' => OpenedWired(St') # {}
       /\ obs'.op \in {"close", "disconnect"} => ~heartbeatTimer'
       /\ obs'.op = "connection_timeout"
             => \A s \in SockIds : socks[s].estab => socks'[s] = socks[s]]_vars

\* a heartbeat interval is running for an open transport, started by an open event that
\* cleared a pending connection timeout
C37_Witness ==
    /\ obs.op = "open"
    /\ heartbeatTimer
    /\ connectionTimer = "null"
    /\ TransportOpen(St)

\* the keys of the integer coordinate pairs that the messages and placements carry
CarriedKeys == {Key(c[1], c[2]) : c \in Cells}

\* C38: every key of canvas.pixels is the key of an integer coordinate pair carried by
\* a message or a placement, and no entry holds an undefined color
C38_PixelKeysCarried ==
    \A k \in DOMAIN pixels : k \in CarriedKeys /\ pixels[k] # "undefined"

\* C39: at most one countdown interval is active; user.cooldownTime is within
\* 0..COOLDOWN_TIME whenever it is written; a tick lowers it by exactly 1; the tick that
\* brings it to 0 clears the interval and leaves isCooldown = false, and no tick before
\* does; and every cooldown ends
C39_CooldownTerminates ==
    /\ [][/\ cooldownIntervals' <= 1
           /\ user'.cooldownTime \in 0..COOLDOWN_TIME
           /\ \A g \in obs'.seen : g.cooldownTime \in 0..COOLDOWN_TIME
           /\ obs'.op = "cooldown_tick"
                 => /\ user'.cooldownTime = user.cooldownTime - 1
                    /\ IF user'.cooldownTime = 0
                       THEN cooldownIntervals' = 0 /\ ~user'.isCooldown
                       ELSE cooldownIntervals' = 1 /\ user'.isCooldown]_vars
    /\ user.isCooldown ~> (~user.isCooldown /\ user.cooldownTime = 0)

\* C40: when a handler has returned, the application's private isConnected flag equals
\* the store's connection.isConnected
C40_FlagsAgree == appConnected = connection.isConnected

====
